---------------------------- MODULE Spec2Model ----------------------------
(***************************************************************************)
(* Seega backend: the session state machine of GameService (create, join,  *)
(* reconnect, get-state, valid-actions, place, move, leave, rematch) over  *)
(* the domain rules of rules_phase1, rules_phase2, rules_capture and       *)
(* rules_victory, with the notifier calls each request makes; and the      *)
(* push side: the connection registry of ConnectionManager, the websocket  *)
(* handler of routes_ws and the push tasks the notifier calls create.      *)
(* Spec, SpecEndgame and SpecOpening are behaviours of the requests;       *)
(* SpecPush, SpecPushFair and SpecDelayed are behaviours of the push side. *)
(*                                                                         *)
(* The store holds the sessions by game id.  Every request targets the     *)
(* game created last; the clients create a game only while the store is    *)
(* empty.  Tokens are the numbers 1, 2, ... in the order _generate_token   *)
(* hands them out; None is NoToken and a token nobody was given is         *)
(* ForgedToken.  A cell is <<x, y>> (column, row).                         *)
(***************************************************************************)
EXTENDS Integers, Sequences, FiniteSets, TLC

VARIABLES
    store,      \* InMemoryGameRepository._games: game id -> GameState
    created,    \* number of games created so far (the next id is created + 1)
    issued,     \* number of tokens generated so far
    movesMade,  \* moves carried out in the current game (the clients' budget)
    departed,   \* history: the tokens whose players have left the current game
    result,     \* the last request and the response the caller got
    connections,  \* ConnectionManager._connections: game id -> the game's map
    sockets,      \* the websockets opened so far, each with its handler's place
    tasks,        \* the push tasks the event loop holds, in the order they were made
    pushed        \* the push task that ended last and how it ended

vars == <<store, created, issued, movesMade, departed, result,
          connections, sockets, tasks, pushed>>

----------------------------------------------------------------------------
(* Bounds of the model *)

MaxGames == 1
MaxMoves == 5
LineAhead == 2

----------------------------------------------------------------------------
(* domain/models.py *)

EMPTY == 0
PLAYER1 == 1
PLAYER2 == 2

SIZE == 5
REFUGE_X == 2
REFUGE_Y == 2

NoToken == 0
ForgedToken == -1
NoWinner == 0
NoPiece == <<>>

Coord == 0 .. (SIZE - 1)
Cells == Coord \X Coord
Players == {PLAYER1, PLAYER2}

EmptyBoard == [c \in Cells |-> EMPTY]

get(board, x, y) == board[<<x, y>>]

set(board, x, y, value) == [board EXCEPT ![<<x, y>>] = value]

is_valid_position(x, y) == (0 <= x /\ x < SIZE) /\ (0 <= y /\ y < SIZE)

is_empty(board, x, y) == get(board, x, y) = EMPTY

is_refuge(x, y) == x = REFUGE_X /\ y = REFUGE_Y

get_player_session(g, player_number) ==
    IF player_number = 1 THEN g.player1 ELSE g.player2

get_opponent(player_number) == IF player_number = 1 THEN 2 ELSE 1

\* switch_turn without the reset of the placement budget
switch_turn_keeps_budget(g) ==
    [g EXCEPT !.current_player = get_opponent(g.current_player)]

switch_turn(g) ==
    LET h == [g EXCEPT !.current_player = get_opponent(g.current_player)]
    IN  IF h.phase = "placement" THEN [h EXCEPT !.placement_remaining = 2] ELSE h

----------------------------------------------------------------------------
(* domain/rules_phase1.py *)

\* the (bool, message) pair of can_place_piece and can_move_piece; pinned is the
\* coordinate the message names, when it names one
Verdict(ok, message) == [ok |-> ok, message |-> message, pinned |-> NoPiece]

\* can_place_piece without the test of the refuge
can_place_piece_any_cell(g, x, y, player) ==
    IF g.phase # "placement" THEN Verdict(FALSE, "not_placement_phase")
    ELSE IF g.current_player # player THEN Verdict(FALSE, "not_your_turn")
    ELSE IF g.placement_remaining <= 0 THEN Verdict(FALSE, "no_placements_left")
    ELSE IF ~is_valid_position(x, y) THEN Verdict(FALSE, "out_of_board")
    ELSE IF ~is_empty(g.board, x, y) THEN Verdict(FALSE, "cell_occupied")
    ELSE Verdict(TRUE, "OK")

\* can_place_piece without the test of the turn
can_place_piece_any_turn(g, x, y, player) ==
    IF g.phase # "placement" THEN Verdict(FALSE, "not_placement_phase")
    ELSE IF g.placement_remaining <= 0 THEN Verdict(FALSE, "no_placements_left")
    ELSE IF ~is_valid_position(x, y) THEN Verdict(FALSE, "out_of_board")
    ELSE IF ~is_empty(g.board, x, y) THEN Verdict(FALSE, "cell_occupied")
    ELSE IF is_refuge(x, y) THEN Verdict(FALSE, "refuge")
    ELSE Verdict(TRUE, "OK")

can_place_piece(g, x, y, player) ==
    IF g.phase # "placement" THEN Verdict(FALSE, "not_placement_phase")
    ELSE IF g.current_player # player THEN Verdict(FALSE, "not_your_turn")
    ELSE IF g.placement_remaining <= 0 THEN Verdict(FALSE, "no_placements_left")
    ELSE IF ~is_valid_position(x, y) THEN Verdict(FALSE, "out_of_board")
    ELSE IF ~is_empty(g.board, x, y) THEN Verdict(FALSE, "cell_occupied")
    ELSE IF is_refuge(x, y) THEN Verdict(FALSE, "refuge")
    ELSE Verdict(TRUE, "OK")

\* place_piece changing the phase after more than 24 pieces instead of at 24
place_piece_past_24(g, x, y, player) ==
    LET g1 == [g EXCEPT !.board = set(g.board, x, y, player),
                        !.pieces_count[player] = @ + 1,
                        !.total_pieces_placed = @ + 1,
                        !.placement_remaining = @ - 1]
        g2 == IF g1.placement_remaining = 0 THEN switch_turn(g1) ELSE g1
    IN  IF g2.total_pieces_placed > 24
        THEN [state |-> [g2 EXCEPT !.phase = "movement",
                                   !.chain_capture_piece = NoPiece],
              phase_changed |-> TRUE]
        ELSE [state |-> g2, phase_changed |-> FALSE]

\* rules_phase1.place_piece: the new state and the phase_changed flag it returns
place_piece(g, x, y, player) ==
    LET g1 == [g EXCEPT !.board = set(g.board, x, y, player),
                        !.pieces_count[player] = @ + 1,
                        !.total_pieces_placed = @ + 1,
                        !.placement_remaining = @ - 1]
        g2 == IF g1.placement_remaining = 0 THEN switch_turn(g1) ELSE g1
    IN  IF g2.total_pieces_placed >= 24
        THEN [state |-> [g2 EXCEPT !.phase = "movement",
                                   !.chain_capture_piece = NoPiece],
              phase_changed |-> TRUE]
        ELSE [state |-> g2, phase_changed |-> FALSE]

\* the cells in the order of the scan "for y: for x"
ScanOrder == [i \in 1 .. (SIZE * SIZE) |-> <<(i - 1) % SIZE, (i - 1) \div SIZE>>]

get_valid_placements(g) ==
    IF g.phase # "placement" THEN <<>>
    ELSE LET ok(c) == is_empty(g.board, c[1], c[2]) /\ ~is_refuge(c[1], c[2])
         IN  SelectSeq(ScanOrder, ok)

----------------------------------------------------------------------------
(* domain/rules_capture.py *)

\* derecha, izquierda, abajo, arriba
CaptureDirections == << <<1, 0>>, <<-1, 0>>, <<0, 1>>, <<0, -1>> >>

\* check_captures without the test of the supporting piece
check_captures_unsupported(g, x, y, player) ==
    LET opponent == IF player = 1 THEN 2 ELSE 1
        custody(d) ==
            LET enemy_x == x + d[1]
                enemy_y == y + d[2]
                support_x == x + 2 * d[1]
                support_y == y + 2 * d[2]
            IN  /\ is_valid_position(enemy_x, enemy_y)
                /\ is_valid_position(support_x, support_y)
                /\ get(g.board, enemy_x, enemy_y) = opponent
                /\ ~is_refuge(enemy_x, enemy_y)
        hits == SelectSeq(CaptureDirections, custody)
    IN  [i \in 1 .. Len(hits) |-> <<x + hits[i][1], y + hits[i][2]>>]

\* check_captures without the exemption of the refuge
check_captures_refuge_exposed(g, x, y, player) ==
    LET opponent == IF player = 1 THEN 2 ELSE 1
        custody(d) ==
            LET enemy_x == x + d[1]
                enemy_y == y + d[2]
                support_x == x + 2 * d[1]
                support_y == y + 2 * d[2]
            IN  /\ is_valid_position(enemy_x, enemy_y)
                /\ is_valid_position(support_x, support_y)
                /\ get(g.board, enemy_x, enemy_y) = opponent
                /\ get(g.board, support_x, support_y) = player
        hits == SelectSeq(CaptureDirections, custody)
    IN  [i \in 1 .. Len(hits) |-> <<x + hits[i][1], y + hits[i][2]>>]

check_captures(g, x, y, player) ==
    LET opponent == IF player = 1 THEN 2 ELSE 1
        custody(d) ==
            LET enemy_x == x + d[1]
                enemy_y == y + d[2]
                support_x == x + 2 * d[1]
                support_y == y + 2 * d[2]
            IN  /\ is_valid_position(enemy_x, enemy_y)
                /\ is_valid_position(support_x, support_y)
                /\ get(g.board, enemy_x, enemy_y) = opponent
                /\ ~is_refuge(enemy_x, enemy_y)
                /\ get(g.board, support_x, support_y) = player
        hits == SelectSeq(CaptureDirections, custody)
    IN  [i \in 1 .. Len(hits) |-> <<x + hits[i][1], y + hits[i][2]>>]

\* apply_captures taking two off the count for each captured piece
apply_captures_counts_twice(g, captures) ==
    IF captures = <<>> THEN g
    ELSE LET player == get(g.board, captures[1][1], captures[1][2])
         IN  [g EXCEPT !.board = [c \in Cells |->
                                     IF \E i \in 1 .. Len(captures) : captures[i] = c
                                     THEN EMPTY ELSE g.board[c]],
                       !.pieces_count[player] = @ - 2 * Len(captures)]

RECURSIVE apply_captures(_, _)
apply_captures(g, captures) ==
    IF captures = <<>> THEN g
    ELSE LET c == Head(captures)
             player == get(g.board, c[1], c[2])
             g1 == [g EXCEPT !.board = set(g.board, c[1], c[2], EMPTY),
                             !.pieces_count[player] = @ - 1]
         IN  apply_captures(g1, Tail(captures))

ChainDirections == << <<0, 1>>, <<0, -1>>, <<1, 0>>, <<-1, 0>> >>

\* the loop of has_capture_chain over possible_moves: simulate, check, revert
RECURSIVE chain_scan(_, _, _, _, _)
\* the loop returning on a capture before it reverts the simulated move
chain_scan_returns_simulated(g, possible_moves, x, y, player) ==
    IF possible_moves = <<>> THEN [found |-> FALSE, state |-> g]
    ELSE LET m == Head(possible_moves)
             sim == [g EXCEPT !.board = set(set(g.board, x, y, EMPTY), m[1], m[2], player)]
             captures == check_captures(sim, m[1], m[2], player)
             rev == [sim EXCEPT !.board = set(set(sim.board, m[1], m[2], EMPTY), x, y, player)]
         IN  IF Len(captures) > 0 THEN [found |-> TRUE, state |-> sim]
             ELSE chain_scan(rev, Tail(possible_moves), x, y, player)

chain_scan(g, possible_moves, x, y, player) ==
    IF possible_moves = <<>> THEN [found |-> FALSE, state |-> g]
    ELSE LET m == Head(possible_moves)
             sim == [g EXCEPT !.board = set(set(g.board, x, y, EMPTY), m[1], m[2], player)]
             captures == check_captures(sim, m[1], m[2], player)
             rev == [sim EXCEPT !.board = set(set(sim.board, m[1], m[2], EMPTY), x, y, player)]
         IN  IF Len(captures) > 0 THEN [found |-> TRUE, state |-> rev]
             ELSE chain_scan(rev, Tail(possible_moves), x, y, player)

\* has_capture_chain: the boolean it returns and the state it leaves behind
has_capture_chain(g, x, y, player) ==
    LET free(d) == /\ is_valid_position(x + d[1], y + d[2])
                   /\ is_empty(g.board, x + d[1], y + d[2])
        dirs == SelectSeq(ChainDirections, free)
        possible_moves == [i \in 1 .. Len(dirs) |-> <<x + dirs[i][1], y + dirs[i][2]>>]
    IN  chain_scan(g, possible_moves, x, y, player)

----------------------------------------------------------------------------
(* domain/rules_phase2.py *)

Abs(n) == IF n < 0 THEN -n ELSE n

\* can_move_piece without the test of the pending chain
can_move_piece_unpinned(g, from_x, from_y, to_x, to_y, player) ==
    IF g.phase # "movement" THEN Verdict(FALSE, "not_movement_phase")
    ELSE IF g.current_player # player THEN Verdict(FALSE, "not_your_turn")
    ELSE IF ~is_valid_position(from_x, from_y) THEN Verdict(FALSE, "bad_origin")
    ELSE IF ~is_valid_position(to_x, to_y) THEN Verdict(FALSE, "bad_destination")
    ELSE IF get(g.board, from_x, from_y) # player THEN Verdict(FALSE, "not_your_piece")
    ELSE IF ~is_empty(g.board, to_x, to_y) THEN Verdict(FALSE, "destination_occupied")
    ELSE LET dx == Abs(to_x - from_x)
             dy == Abs(to_y - from_y)
         IN  IF ~((dx = 1 /\ dy = 0) \/ (dx = 0 /\ dy = 1))
             THEN Verdict(FALSE, "not_orthogonal_step")
             ELSE Verdict(TRUE, "OK")

\* can_move_piece taking a diagonal step for a step along one axis
can_move_piece_diagonal(g, from_x, from_y, to_x, to_y, player) ==
    IF g.phase # "movement" THEN Verdict(FALSE, "not_movement_phase")
    ELSE IF g.current_player # player THEN Verdict(FALSE, "not_your_turn")
    ELSE IF ~is_valid_position(from_x, from_y) THEN Verdict(FALSE, "bad_origin")
    ELSE IF ~is_valid_position(to_x, to_y) THEN Verdict(FALSE, "bad_destination")
    ELSE IF get(g.board, from_x, from_y) # player THEN Verdict(FALSE, "not_your_piece")
    ELSE IF ~is_empty(g.board, to_x, to_y) THEN Verdict(FALSE, "destination_occupied")
    ELSE LET dx == Abs(to_x - from_x)
             dy == Abs(to_y - from_y)
         IN  IF ~(dx <= 1 /\ dy <= 1 /\ dx + dy > 0)
             THEN Verdict(FALSE, "not_orthogonal_step")
             ELSE IF /\ g.chain_capture_piece # NoPiece
                     /\ (from_x # g.chain_capture_piece[1] \/ from_y # g.chain_capture_piece[2])
             THEN [ok |-> FALSE, message |-> "must_continue_chain",
                   pinned |-> g.chain_capture_piece]
             ELSE Verdict(TRUE, "OK")

can_move_piece(g, from_x, from_y, to_x, to_y, player) ==
    IF g.phase # "movement" THEN Verdict(FALSE, "not_movement_phase")
    ELSE IF g.current_player # player THEN Verdict(FALSE, "not_your_turn")
    ELSE IF ~is_valid_position(from_x, from_y) THEN Verdict(FALSE, "bad_origin")
    ELSE IF ~is_valid_position(to_x, to_y) THEN Verdict(FALSE, "bad_destination")
    ELSE IF get(g.board, from_x, from_y) # player THEN Verdict(FALSE, "not_your_piece")
    ELSE IF ~is_empty(g.board, to_x, to_y) THEN Verdict(FALSE, "destination_occupied")
    ELSE LET dx == Abs(to_x - from_x)
             dy == Abs(to_y - from_y)
         IN  IF ~((dx = 1 /\ dy = 0) \/ (dx = 0 /\ dy = 1))
             THEN Verdict(FALSE, "not_orthogonal_step")
             ELSE IF /\ g.chain_capture_piece # NoPiece
                     /\ (from_x # g.chain_capture_piece[1] \/ from_y # g.chain_capture_piece[2])
             THEN [ok |-> FALSE, message |-> "must_continue_chain",
                   pinned |-> g.chain_capture_piece]
             ELSE Verdict(TRUE, "OK")

\* move_piece leaving the piece on its origin as well
move_piece_keeps_origin(g, from_x, from_y, to_x, to_y) ==
    LET player == get(g.board, from_x, from_y)
    IN  [g EXCEPT !.board = set(g.board, to_x, to_y, player)]


move_piece(g, from_x, from_y, to_x, to_y) ==
    LET player == get(g.board, from_x, from_y)
    IN  [g EXCEPT !.board = set(set(g.board, from_x, from_y, EMPTY), to_x, to_y, player)]

get_valid_moves_for_piece(g, x, y) ==
    IF g.phase # "movement" THEN <<>>
    ELSE IF get(g.board, x, y) = EMPTY THEN <<>>
    ELSE LET free(d) == /\ is_valid_position(x + d[1], y + d[2])
                        /\ is_empty(g.board, x + d[1], y + d[2])
             dirs == SelectSeq(ChainDirections, free)
         IN  [i \in 1 .. Len(dirs) |-> <<x + dirs[i][1], y + dirs[i][2]>>]

\* the dict {(from_x, from_y): [(to_x, to_y), ...]} as a function on its keys
get_all_valid_moves(g, player) ==
    IF g.phase # "movement" THEN [c \in {} |-> <<>>]
    ELSE IF g.chain_capture_piece # NoPiece
    THEN LET x == g.chain_capture_piece[1]
             y == g.chain_capture_piece[2]
             moves == get_valid_moves_for_piece(g, x, y)
         IN  IF moves # <<>> THEN [c \in {<<x, y>>} |-> moves] ELSE [c \in {} |-> <<>>]
    ELSE LET origins == {c \in Cells : /\ get(g.board, c[1], c[2]) = player
                                        /\ get_valid_moves_for_piece(g, c[1], c[2]) # <<>>}
         IN  [c \in origins |-> get_valid_moves_for_piece(g, c[1], c[2])]

----------------------------------------------------------------------------
(* domain/rules_victory.py *)

Victory(has_winner, winner, reason) ==
    [has_winner |-> has_winner, winner |-> winner, reason |-> reason]

\* check_victory with the attrition threshold at 1 instead of 2
check_victory_under_1(g) ==
    IF g.phase # "movement" THEN Victory(FALSE, NoWinner, "")
    ELSE LET p1_pieces == g.pieces_count[1]
             p2_pieces == g.pieces_count[2]
         IN  IF p1_pieces < 1 THEN Victory(TRUE, 2, "p1_under_2")
             ELSE IF p2_pieces < 1 THEN Victory(TRUE, 1, "p2_under_2")
             ELSE LET current_moves == get_all_valid_moves(g, g.current_player)
                  IN  IF Cardinality(DOMAIN current_moves) = 0
                      THEN IF p1_pieces > p2_pieces
                           THEN Victory(TRUE, 1, "p2_blocked_p1_more")
                           ELSE IF p2_pieces > p1_pieces
                           THEN Victory(TRUE, 2, "p1_blocked_p2_more")
                           ELSE Victory(TRUE, IF g.current_player = 1 THEN 2 ELSE 1,
                                        "blocked_tie")
                      ELSE Victory(FALSE, NoWinner, "")

\* check_victory comparing the counts with >= : equal counts go to player 1
check_victory_ties_to_p1(g) ==
    IF g.phase # "movement" THEN Victory(FALSE, NoWinner, "")
    ELSE LET p1_pieces == g.pieces_count[1]
             p2_pieces == g.pieces_count[2]
         IN  IF p1_pieces < 2 THEN Victory(TRUE, 2, "p1_under_2")
             ELSE IF p2_pieces < 2 THEN Victory(TRUE, 1, "p2_under_2")
             ELSE LET current_moves == get_all_valid_moves(g, g.current_player)
                  IN  IF Cardinality(DOMAIN current_moves) = 0
                      THEN IF p1_pieces >= p2_pieces
                           THEN Victory(TRUE, 1, "p2_blocked_p1_more")
                           ELSE Victory(TRUE, 2, "p1_blocked_p2_more")
                      ELSE Victory(FALSE, NoWinner, "")

check_victory(g) ==
    IF g.phase # "movement" THEN Victory(FALSE, NoWinner, "")
    ELSE LET p1_pieces == g.pieces_count[1]
             p2_pieces == g.pieces_count[2]
         IN  IF p1_pieces < 2 THEN Victory(TRUE, 2, "p1_under_2")
             ELSE IF p2_pieces < 2 THEN Victory(TRUE, 1, "p2_under_2")
             ELSE LET current_moves == get_all_valid_moves(g, g.current_player)
                  IN  IF Cardinality(DOMAIN current_moves) = 0
                      THEN IF p1_pieces > p2_pieces
                           THEN Victory(TRUE, 1, "p2_blocked_p1_more")
                           ELSE IF p2_pieces > p1_pieces
                           THEN Victory(TRUE, 2, "p1_blocked_p2_more")
                           ELSE Victory(TRUE, IF g.current_player = 1 THEN 2 ELSE 1,
                                        "blocked_tie")
                      ELSE Victory(FALSE, NoWinner, "")

----------------------------------------------------------------------------
(* services/game_service.py *)

\* What a caller gets back: the HTTP outcome (status "ok", or the error and its
\* detail) and, on success, the MoveResult or the body of the response.
NoResponse ==
    [op |-> "none", status |-> "ok", reason |-> "", pinned |-> NoPiece,
     player |-> 0, origin |-> NoPiece, target |-> NoPiece, captures |-> <<>>,
     extraTurn |-> FALSE, phaseChanged |-> FALSE, gameOver |-> FALSE,
     winner |-> NoWinner, token |-> NoToken, flag |-> FALSE, events |-> <<>>,
     caller |-> NoToken]

\* the calls a handler makes to the notifier, in their order:
\* notify_game_event(game_id, {type}, exclude_token) and
\* notify_specific_player(game_id, player_token, {type})
Broadcast(type, exclude_token) == [type |-> type, to |-> "game", token |-> exclude_token]

Send(type, player_token) == [type |-> type, to |-> "player", token |-> player_token]

HTTPException(op, player, status, reason) ==
    [NoResponse EXCEPT !.op = op, !.player = player, !.status = status,
                       !.reason = reason]

Outcome(state, deleted, response) ==
    [state |-> state, deleted |-> deleted, result |-> response]

\* _get_player_number; 0 where the code raises 403
get_player_number(g, player_token) ==
    IF g.player1 # NoToken /\ g.player1 = player_token THEN 1
    ELSE IF g.player2 # NoToken /\ g.player2 = player_token THEN 2
    ELSE 0

get_opponent_token(g, player_token) ==
    IF g.player1 # NoToken /\ g.player1 = player_token THEN g.player2
    ELSE IF g.player2 # NoToken /\ g.player2 = player_token THEN g.player1
    ELSE NoToken

NewGame(game_id, player_token) ==
    [game_id |-> game_id,
     board |-> EmptyBoard,
     phase |-> "placement",
     status |-> "waiting",
     current_player |-> 1,
     player1 |-> player_token,
     player2 |-> NoToken,
     pieces_count |-> <<0, 0>>,
     placement_remaining |-> 2,
     chain_capture_piece |-> NoPiece,
     winner |-> NoWinner,
     game_over |-> FALSE,
     total_pieces_placed |-> 0,
     rematch_requests |-> {}]

\* the end of a game recorded under the reserved status
Finished_as_ready(g, winner) ==
    [g EXCEPT !.winner = winner, !.game_over = TRUE, !.status = "ready"]

Finished(g, winner) ==
    [g EXCEPT !.winner = winner, !.game_over = TRUE, !.status = "finished"]

\* join_game without the test of seat 1's token
join_game_forgets_seat1(g, existing_token, fresh, start) ==
    IF existing_token # NoToken /\ g.player2 # NoToken /\ g.player2 = existing_token
    THEN Outcome(g, FALSE, [NoResponse EXCEPT !.op = "join", !.player = 2,
                                              !.token = existing_token])
    ELSE IF g.status # "waiting"
    THEN IF g.player2 # NoToken /\ existing_token = NoToken
         THEN Outcome(g, FALSE, [NoResponse EXCEPT !.op = "join", !.player = 2,
                                                   !.token = g.player2])
         ELSE Outcome(g, FALSE, HTTPException("join", 0, "AlreadyFull", "full_or_finished"))
    ELSE Outcome([g EXCEPT !.player2 = fresh, !.status = "playing",
                           !.current_player = start],
                 FALSE,
                 [NoResponse EXCEPT !.op = "join", !.player = 2, !.token = fresh,
                                    !.flag = TRUE,
                                    !.events = <<Broadcast("opponent_joined", fresh)>>])

\* join_game giving seat 2 a new token when asked with none on a running game
join_game_reissues(g, existing_token, fresh, start) ==
    IF existing_token # NoToken /\ g.player1 # NoToken /\ g.player1 = existing_token
    THEN Outcome(g, FALSE, [NoResponse EXCEPT !.op = "join", !.player = 1,
                                              !.token = existing_token])
    ELSE IF existing_token # NoToken /\ g.player2 # NoToken /\ g.player2 = existing_token
    THEN Outcome(g, FALSE, [NoResponse EXCEPT !.op = "join", !.player = 2,
                                              !.token = existing_token])
    ELSE IF g.status # "waiting"
    THEN IF g.player2 # NoToken /\ existing_token = NoToken
         THEN Outcome([g EXCEPT !.player2 = fresh], FALSE,
                      [NoResponse EXCEPT !.op = "join", !.player = 2, !.token = fresh,
                                         !.flag = TRUE])
         ELSE Outcome(g, FALSE, HTTPException("join", 0, "AlreadyFull", "full_or_finished"))
    ELSE Outcome([g EXCEPT !.player2 = fresh, !.status = "playing",
                           !.current_player = start],
                 FALSE,
                 [NoResponse EXCEPT !.op = "join", !.player = 2, !.token = fresh,
                                    !.flag = TRUE,
                                    !.events = <<Broadcast("opponent_joined", fresh)>>])

\* join_game seating the presented token on the empty seat 2 of a running game
join_game_refills_seat(g, existing_token, fresh, start) ==
    IF existing_token # NoToken /\ g.player1 # NoToken /\ g.player1 = existing_token
    THEN Outcome(g, FALSE, [NoResponse EXCEPT !.op = "join", !.player = 1,
                                              !.token = existing_token])
    ELSE IF existing_token # NoToken /\ g.player2 # NoToken /\ g.player2 = existing_token
    THEN Outcome(g, FALSE, [NoResponse EXCEPT !.op = "join", !.player = 2,
                                              !.token = existing_token])
    ELSE IF g.status # "waiting"
    THEN IF g.player2 # NoToken /\ existing_token = NoToken
         THEN Outcome(g, FALSE, [NoResponse EXCEPT !.op = "join", !.player = 2,
                                                   !.token = g.player2])
         ELSE IF g.player2 = NoToken /\ existing_token # NoToken
         THEN Outcome([g EXCEPT !.player2 = existing_token], FALSE,
                      [NoResponse EXCEPT !.op = "join", !.player = 2,
                                         !.token = existing_token])
         ELSE Outcome(g, FALSE, HTTPException("join", 0, "AlreadyFull", "full_or_finished"))
    ELSE Outcome([g EXCEPT !.player2 = fresh, !.status = "playing",
                           !.current_player = start],
                 FALSE,
                 [NoResponse EXCEPT !.op = "join", !.player = 2, !.token = fresh,
                                    !.flag = TRUE,
                                    !.events = <<Broadcast("opponent_joined", fresh)>>])

\* join_game on a stored session; fresh is the token _generate_token would give,
\* start the outcome of random.choice([1, 2]).  events holds the calls made
\* before the method returns; the game_started broadcast is made later by
\* _notify_game_started_delayed, which the method only schedules.
join_game(g, existing_token, fresh, start) ==
    IF existing_token # NoToken /\ g.player1 # NoToken /\ g.player1 = existing_token
    THEN Outcome(g, FALSE, [NoResponse EXCEPT !.op = "join", !.player = 1,
                                              !.token = existing_token])
    ELSE IF existing_token # NoToken /\ g.player2 # NoToken /\ g.player2 = existing_token
    THEN Outcome(g, FALSE, [NoResponse EXCEPT !.op = "join", !.player = 2,
                                              !.token = existing_token])
    ELSE IF g.status # "waiting"
    THEN IF g.player2 # NoToken /\ existing_token = NoToken
         THEN Outcome(g, FALSE, [NoResponse EXCEPT !.op = "join", !.player = 2,
                                                   !.token = g.player2])
         ELSE Outcome(g, FALSE, HTTPException("join", 0, "AlreadyFull", "full_or_finished"))
    ELSE Outcome([g EXCEPT !.player2 = fresh, !.status = "playing",
                           !.current_player = start],
                 FALSE,
                 [NoResponse EXCEPT !.op = "join", !.player = 2, !.token = fresh,
                                    !.flag = TRUE,
                                    !.events = <<Broadcast("opponent_joined", fresh)>>])

reconnect_game(g, player_token) ==
    LET player_num == get_player_number(g, player_token)
    IN  IF player_num = 0
        THEN Outcome(g, FALSE, HTTPException("reconnect", 0, "Unauthorized", "invalid_token"))
        ELSE Outcome(g, FALSE, [NoResponse EXCEPT !.op = "reconnect", !.player = player_num,
                                                  !.token = player_token])

\* the response is _serialize_state: the fields of the stored session and
\* yourPlayerNumber; isYourTurn is kept in flag
get_game_state(g, player_token) ==
    LET player_num == get_player_number(g, player_token)
    IN  IF player_num = 0
        THEN Outcome(g, FALSE, HTTPException("state", 0, "Unauthorized", "invalid_token"))
        ELSE Outcome(g, FALSE, [NoResponse EXCEPT !.op = "state", !.player = player_num,
                                                  !.flag = (g.current_player = player_num),
                                                  !.winner = g.winner,
                                                  !.gameOver = g.game_over])

GameService_place_piece(g, player_token, x, y) ==
    LET player_num == get_player_number(g, player_token)
        verdict == can_place_piece(g, x, y, player_num)
        placed == place_piece(g, x, y, player_num)
        victory == IF ~placed.phase_changed THEN check_victory(placed.state)
                   ELSE Victory(FALSE, NoWinner, "")
        opponent_token == get_opponent_token(g, player_token)
        your_turn == IF /\ ~placed.phase_changed
                        /\ opponent_token # NoToken
                        /\ placed.state.current_player # player_num
                     THEN <<Send("your_turn", opponent_token)>> ELSE <<>>
        game_over == IF victory.has_winner THEN <<Broadcast("game_over", NoToken)>>
                     ELSE <<>>
        phase_changed == IF placed.phase_changed
                         THEN <<Broadcast("phase_changed", NoToken)>> ELSE <<>>
    IN  IF player_num = 0
        THEN Outcome(g, FALSE, HTTPException("place", 0, "Unauthorized", "invalid_token"))
        ELSE IF ~verdict.ok
        THEN Outcome(g, FALSE, HTTPException("place", player_num, "IllegalAction",
                                             verdict.message))
        ELSE Outcome(IF victory.has_winner THEN Finished(placed.state, victory.winner)
                     ELSE placed.state,
                     FALSE,
                     [NoResponse EXCEPT !.op = "place", !.player = player_num,
                                        !.target = <<x, y>>,
                                        !.phaseChanged = placed.phase_changed,
                                        !.gameOver = victory.has_winner,
                                        !.winner = victory.winner,
                                        !.reason = victory.reason,
                                        !.events =
                                            <<Broadcast("opponent_placed", player_token)>>
                                            \o your_turn \o game_over \o phase_changed])

\* GameService.move_piece is modelled in stages, last stage first; each stage
\* takes the values the method has computed so far.

\* the response of a move that tells the opponent it is their turn after a
\* move that grants an extra turn too
move_piece_response_turn_after_chain(state, verdict, player_num, from_x, from_y, to_x, to_y, captures, extra_turn) ==
    Outcome(IF verdict.has_winner THEN Finished(state, verdict.winner) ELSE state,
            FALSE,
            [NoResponse EXCEPT !.op = "move", !.player = player_num,
                               !.origin = <<from_x, from_y>>,
                               !.target = <<to_x, to_y>>,
                               !.captures = captures,
                               !.extraTurn = extra_turn,
                               !.gameOver = verdict.has_winner,
                               !.winner = verdict.winner,
                               !.reason = verdict.reason,
                               !.events =
                                   <<Broadcast("opponent_moved",
                                               get_player_session(state, player_num))>>
                                   \o (IF verdict.has_winner
                                       THEN <<Broadcast("game_over", NoToken)>>
                                       ELSE <<Send("your_turn",
                                                   get_player_session(state, 3 - player_num))>>)])

\* the saved state and the serialized MoveResult
move_piece_response(state, verdict, player_num, from_x, from_y, to_x, to_y, captures, extra_turn) ==
    Outcome(IF verdict.has_winner THEN Finished(state, verdict.winner) ELSE state,
            FALSE,
            [NoResponse EXCEPT !.op = "move", !.player = player_num,
                               !.origin = <<from_x, from_y>>,
                               !.target = <<to_x, to_y>>,
                               !.captures = captures,
                               !.extraTurn = extra_turn,
                               !.gameOver = verdict.has_winner,
                               !.winner = verdict.winner,
                               !.reason = verdict.reason,
                               !.events =
                                   <<Broadcast("opponent_moved",
                                               get_player_session(state, player_num))>>
                                   \o (IF verdict.has_winner
                                       THEN <<Broadcast("game_over", NoToken)>>
                                       ELSE IF extra_turn THEN <<>>
                                       ELSE <<Send("your_turn",
                                                   get_player_session(state, 3 - player_num))>>)])

\* "Verificar victoria", and the second check made when the move neither ended
\* the game nor chains
move_piece_victory(state, victory, player_num, from_x, from_y, to_x, to_y, captures, extra_turn) ==
    IF victory.has_winner \/ extra_turn
    THEN move_piece_response(state, victory, player_num, from_x, from_y, to_x, to_y,
                             captures, extra_turn)
    ELSE move_piece_response(state, check_victory(state), player_num,
                             from_x, from_y, to_x, to_y, captures, extra_turn)

\* the chain pointer set to the cell the piece has left
move_piece_chain_pins_origin(chain, player_num, from_x, from_y, to_x, to_y, captures) ==
    LET state == IF chain.found
                 THEN [chain.state EXCEPT !.chain_capture_piece = <<from_x, from_y>>]
                 ELSE switch_turn([chain.state EXCEPT !.chain_capture_piece = NoPiece])
    IN  move_piece_victory(state, check_victory(state), player_num,
                           from_x, from_y, to_x, to_y, captures, chain.found)

\* the chain pointer set to the cell of the first captured piece
move_piece_chain_pins_captured(chain, player_num, from_x, from_y, to_x, to_y, captures) ==
    LET state == IF chain.found
                 THEN [chain.state EXCEPT !.chain_capture_piece = captures[1]]
                 ELSE switch_turn([chain.state EXCEPT !.chain_capture_piece = NoPiece])
    IN  move_piece_victory(state, check_victory(state), player_num,
                           from_x, from_y, to_x, to_y, captures, chain.found)


\* after the captures: the chain pointer and the turn
move_piece_chain(chain, player_num, from_x, from_y, to_x, to_y, captures) ==
    LET state == IF chain.found
                 THEN [chain.state EXCEPT !.chain_capture_piece = <<to_x, to_y>>]
                 ELSE switch_turn([chain.state EXCEPT !.chain_capture_piece = NoPiece])
    IN  move_piece_victory(state, check_victory(state), player_num,
                           from_x, from_y, to_x, to_y, captures, chain.found)

\* "Verificar capturas": with captures, apply them and look for a chain; without,
\* change the turn
move_piece_captures(moved, captures, player_num, from_x, from_y, to_x, to_y) ==
    IF Len(captures) > 0
    THEN move_piece_chain(has_capture_chain(apply_captures(moved, captures),
                                            to_x, to_y, player_num),
                          player_num, from_x, from_y, to_x, to_y, captures)
    ELSE move_piece_chain([found |-> FALSE, state |-> moved],
                          player_num, from_x, from_y, to_x, to_y, captures)

GameService_move_piece(g, player_token, from_x, from_y, to_x, to_y) ==
    LET player_num == get_player_number(g, player_token)
        verdict == can_move_piece(g, from_x, from_y, to_x, to_y, player_num)
        moved == move_piece(g, from_x, from_y, to_x, to_y)
    IN  IF player_num = 0
        THEN Outcome(g, FALSE, HTTPException("move", 0, "Unauthorized", "invalid_token"))
        ELSE IF ~verdict.ok
        THEN Outcome(g, FALSE, [HTTPException("move", player_num, "IllegalAction",
                                              verdict.message)
                                EXCEPT !.pinned = verdict.pinned])
        ELSE move_piece_captures(moved,
                                 check_captures(moved, to_x, to_y, player_num),
                                 player_num, from_x, from_y, to_x, to_y)

\* canAct is kept in flag, chainCapture in pinned; the offered placements and
\* moves are get_valid_placements(g) and get_all_valid_moves(g, player_num)
get_valid_actions(g, player_token) ==
    LET player_num == get_player_number(g, player_token)
    IN  IF player_num = 0
        THEN Outcome(g, FALSE, HTTPException("valid_actions", 0, "Unauthorized",
                                             "invalid_token"))
        ELSE IF g.current_player # player_num
        THEN Outcome(g, FALSE, [NoResponse EXCEPT !.op = "valid_actions",
                                                  !.player = player_num,
                                                  !.reason = "not_your_turn"])
        ELSE Outcome(g, FALSE, [NoResponse EXCEPT !.op = "valid_actions",
                                                  !.player = player_num, !.flag = TRUE,
                                                  !.pinned = IF g.phase = "placement"
                                                             THEN NoPiece
                                                             ELSE g.chain_capture_piece])

\* leave_game keeping the winner of a game that was over already
leave_game_keeps_winner(g, player_token) ==
    LET player_num == get_player_number(g, player_token)
        opponent_token == get_opponent_token(g, player_token)
        left == IF player_num = 1 THEN [g EXCEPT !.player1 = NoToken]
                ELSE [g EXCEPT !.player2 = NoToken]
    IN  IF player_num = 0
        THEN Outcome(g, FALSE, HTTPException("leave", 0, "Unauthorized", "invalid_token"))
        ELSE IF left.player1 = NoToken /\ left.player2 = NoToken
        THEN Outcome(left, TRUE, [NoResponse EXCEPT !.op = "leave", !.player = player_num,
                                                    !.flag = TRUE])
        ELSE Outcome(Finished(left, IF g.winner # NoWinner THEN g.winner
                                    ELSE IF left.player1 # NoToken THEN 1 ELSE 2), FALSE,
                     [NoResponse EXCEPT !.op = "leave", !.player = player_num,
                                        !.events = <<Send("opponent_left", opponent_token),
                                                     Send("game_over", opponent_token)>>])

leave_game(g, player_token) ==
    LET player_num == get_player_number(g, player_token)
        opponent_token == get_opponent_token(g, player_token)
        left == IF player_num = 1 THEN [g EXCEPT !.player1 = NoToken]
                ELSE [g EXCEPT !.player2 = NoToken]
    IN  IF player_num = 0
        THEN Outcome(g, FALSE, HTTPException("leave", 0, "Unauthorized", "invalid_token"))
        ELSE IF left.player1 = NoToken /\ left.player2 = NoToken
        THEN Outcome(left, TRUE, [NoResponse EXCEPT !.op = "leave", !.player = player_num,
                                                    !.flag = TRUE])
        ELSE Outcome(Finished(left, IF left.player1 # NoToken THEN 1 ELSE 2), FALSE,
                     [NoResponse EXCEPT !.op = "leave", !.player = player_num,
                                        !.events = <<Send("opponent_left", opponent_token),
                                                     Send("game_over", opponent_token)>>])

\* rematch_game restarting on the first request
rematch_game_single_request(g, player_token, start) ==
    LET player_num == get_player_number(g, player_token)
        asked == [g EXCEPT !.rematch_requests = @ \cup {player_num}]
    IN  IF ~g.game_over
        THEN Outcome(g, FALSE, HTTPException("rematch", 0, "NotYetFinished", "not_over"))
        ELSE IF player_num = 0
        THEN Outcome(g, FALSE, HTTPException("rematch", 0, "Unauthorized", "invalid_token"))
        ELSE Outcome([asked EXCEPT !.board = EmptyBoard,
                                   !.phase = "placement",
                                   !.status = "playing",
                                   !.current_player = start,
                                   !.pieces_count = <<0, 0>>,
                                   !.placement_remaining = 2,
                                   !.total_pieces_placed = 0,
                                   !.winner = NoWinner,
                                   !.game_over = FALSE,
                                   !.chain_capture_piece = NoPiece,
                                   !.rematch_requests = {}],
                     FALSE,
                     [NoResponse EXCEPT !.op = "rematch", !.player = player_num,
                                        !.flag = TRUE])

\* rematch_game recording a request for a token of no seat
rematch_game_counts_strangers(g, player_token, start) ==
    LET player_num == get_player_number(g, player_token)
        asked == [g EXCEPT !.rematch_requests = @ \cup {player_num}]
        opponent_num == IF player_num = 1 THEN 2 ELSE 1
    IN  IF ~g.game_over
        THEN Outcome(g, FALSE, HTTPException("rematch", 0, "NotYetFinished", "not_over"))
        ELSE IF player_num = 0
        THEN Outcome([g EXCEPT !.rematch_requests = @ \cup {2}], FALSE,
                     HTTPException("rematch", 0, "Unauthorized", "invalid_token"))
        ELSE IF Cardinality(asked.rematch_requests) >= 2
        THEN Outcome([asked EXCEPT !.board = EmptyBoard,
                                   !.phase = "placement",
                                   !.status = "playing",
                                   !.current_player = start,
                                   !.pieces_count = <<0, 0>>,
                                   !.placement_remaining = 2,
                                   !.total_pieces_placed = 0,
                                   !.winner = NoWinner,
                                   !.game_over = FALSE,
                                   !.chain_capture_piece = NoPiece,
                                   !.rematch_requests = {}],
                     FALSE,
                     [NoResponse EXCEPT !.op = "rematch", !.player = player_num,
                                        !.flag = TRUE,
                                        !.events = <<Broadcast("rematch_started", NoToken)>>])
        \* opponent_token = state.playerN.token raises AttributeError on an empty seat
        ELSE IF get_player_session(asked, opponent_num) = NoToken
        THEN Outcome(asked, FALSE, HTTPException("rematch", player_num, "ServerError",
                                                 "opponent_seat_empty"))
        ELSE Outcome(asked, FALSE,
                     [NoResponse EXCEPT !.op = "rematch", !.player = player_num,
                                        !.events =
                                            <<Send("rematch_requested",
                                                   get_player_session(asked, opponent_num))>>])

\* rematch_game; start is the outcome of random.choice([1, 2])
rematch_game(g, player_token, start) ==
    LET player_num == get_player_number(g, player_token)
        asked == [g EXCEPT !.rematch_requests = @ \cup {player_num}]
        opponent_num == IF player_num = 1 THEN 2 ELSE 1
    IN  IF ~g.game_over
        THEN Outcome(g, FALSE, HTTPException("rematch", 0, "NotYetFinished", "not_over"))
        ELSE IF player_num = 0
        THEN Outcome(g, FALSE, HTTPException("rematch", 0, "Unauthorized", "invalid_token"))
        ELSE IF Cardinality(asked.rematch_requests) >= 2
        THEN Outcome([asked EXCEPT !.board = EmptyBoard,
                                   !.phase = "placement",
                                   !.status = "playing",
                                   !.current_player = start,
                                   !.pieces_count = <<0, 0>>,
                                   !.placement_remaining = 2,
                                   !.total_pieces_placed = 0,
                                   !.winner = NoWinner,
                                   !.game_over = FALSE,
                                   !.chain_capture_piece = NoPiece,
                                   !.rematch_requests = {}],
                     FALSE,
                     [NoResponse EXCEPT !.op = "rematch", !.player = player_num,
                                        !.flag = TRUE,
                                        !.events = <<Broadcast("rematch_started", NoToken)>>])
        \* opponent_token = state.playerN.token raises AttributeError on an empty seat
        ELSE IF get_player_session(asked, opponent_num) = NoToken
        THEN Outcome(asked, FALSE, HTTPException("rematch", player_num, "ServerError",
                                                 "opponent_seat_empty"))
        ELSE Outcome(asked, FALSE,
                     [NoResponse EXCEPT !.op = "rematch", !.player = player_num,
                                        !.events =
                                            <<Send("rematch_requested",
                                                   get_player_session(asked, opponent_num))>>])

----------------------------------------------------------------------------
(* services/notifier.py *)

NoSocket == 0

\* A game's map is a dict of token -> websocket.  The model keeps what the
\* iteration of a CPython dict depends on: the entries in insertion order, a
\* deleted entry keeping its place without a websocket, and which dict object
\* it is, told by the websocket whose connect made it.  A map takes fewer than
\* six new keys in its life, so the dict is never resized.
NewMap(websocket) == [made |-> websocket, entries |-> <<>>]

\* the places of the entries the map holds
Held(m) == {k \in DOMAIN m.entries : m.entries[k].websocket # NoSocket}

\* token in map
Has(m, player_token) == \E k \in Held(m) : m.entries[k].token = player_token

Place(m, player_token) == CHOOSE k \in Held(m) : m.entries[k].token = player_token

\* the websockets registered for a game
Registered(conns, game_id) ==
    IF game_id \in DOMAIN conns
    THEN {conns[game_id].entries[k].websocket : k \in Held(conns[game_id])}
    ELSE {}

\* connect adding an entry for the token whether the map has one or not
connect_keeps_old(conns, game_id, player_token, websocket) ==
    LET m == IF game_id \in DOMAIN conns THEN conns[game_id] ELSE NewMap(websocket)
        registered == [m EXCEPT !.entries = Append(@, [token |-> player_token,
                                                     websocket |-> websocket])]
    IN  [g \in DOMAIN conns \cup {game_id} |->
            IF g = game_id THEN registered ELSE conns[g]]

\* ConnectionManager.connect after the accept
connect(conns, game_id, player_token, websocket) ==
    LET m == IF game_id \in DOMAIN conns THEN conns[game_id] ELSE NewMap(websocket)
        registered == IF Has(m, player_token)
                      THEN [m EXCEPT !.entries[Place(m, player_token)].websocket = websocket]
                      ELSE [m EXCEPT !.entries = Append(@, [token |-> player_token,
                                                           websocket |-> websocket])]
    IN  [g \in DOMAIN conns \cup {game_id} |->
            IF g = game_id THEN registered ELSE conns[g]]

disconnect(conns, game_id, player_token) ==
    IF game_id \notin DOMAIN conns THEN conns
    ELSE LET m == conns[game_id]
             deleted == IF Has(m, player_token)
                        THEN [m EXCEPT !.entries[Place(m, player_token)].websocket = NoSocket]
                        ELSE m
         IN  IF Cardinality(Held(deleted)) = 0
             THEN [g \in DOMAIN conns \ {game_id} |-> conns[g]]
             ELSE [conns EXCEPT ![game_id] = deleted]

get_connected_players(conns, game_id) ==
    IF game_id \in DOMAIN conns THEN Cardinality(Held(conns[game_id])) ELSE 0

\* The iterator of for ... in self._connections[game_id].items():
\* made is the dict it walks, pos the place of the entry it gave last, used the
\* size of the dict when the loop began and len the entries it has yet to give.
NoIterator == [made |-> NoSocket, pos |-> 0, used |-> 0, len |-> 0]

items(m) == [made |-> m.made, pos |-> 0, used |-> Cardinality(Held(m)),
             len |-> Cardinality(Held(m))]

\* the dict the iterator walks as it is now: the game's map while the registry
\* still holds that dict, and the emptied dict once disconnect has deleted it
Walked(conns, game_id, it) ==
    IF game_id \in DOMAIN conns /\ conns[game_id].made = it.made
    THEN conns[game_id]
    ELSE [made |-> it.made, entries |-> <<>>]

\* one step of the iterator (CPython's dictiter_iternextitem): RuntimeError
\* when the dict has changed size since the loop began, or when it holds an
\* entry more than the loop expected; the end of the loop after the last entry
dictiter_next(m, it) ==
    LET rest == {k \in Held(m) : k > it.pos}
        k == CHOOSE i \in rest : \A j \in rest : i <= j
    IN  IF it.used # Cardinality(Held(m))
        THEN [kind |-> "RuntimeError", it |-> it, token |-> NoToken, websocket |-> NoSocket]
        ELSE IF rest = {}
        THEN [kind |-> "StopIteration", it |-> it, token |-> NoToken, websocket |-> NoSocket]
        ELSE IF it.len = 0
        THEN [kind |-> "RuntimeError", it |-> it, token |-> NoToken, websocket |-> NoSocket]
        ELSE [kind |-> "item", it |-> [it EXCEPT !.pos = k, !.len = @ - 1],
              token |-> m.entries[k].token, websocket |-> m.entries[k].websocket]

\* A push task: a broadcast_to_game (token is exclude_token), a send_to_player
\* (token is player_token) or a _notify_game_started_delayed.  pc is where the
\* task is: "created" before its first step, "send_json" while suspended in the
\* send to websocket, registered under player_token.  sent and stayed are
\* history: the websockets the task has delivered to, and the websockets that
\* were registered for the game when the scan began and have been ever since.
NewTask(kind, type, game_id, token) ==
    [kind |-> kind, type |-> type, game_id |-> game_id, token |-> token,
     pc |-> "created", it |-> NoIterator, player_token |-> NoToken,
     websocket |-> NoSocket, disconnected |-> <<>>, sent |-> {}, stayed |-> {}]

\* how a task ended: "returned", or "RuntimeError" when the exception left it
Ended(task, outcome) ==
    [kind |-> task.kind, type |-> task.type, game_id |-> task.game_id,
     token |-> task.token, outcome |-> outcome, disconnected |-> task.disconnected,
     sent |-> task.sent, stayed |-> task.stayed]

NoPush == Ended(NewTask("none", "", 0, NoToken), "returned")

\* "Limpiar conexiones fallidas"
RECURSIVE broadcast_cleanup(_, _, _)
broadcast_cleanup(conns, game_id, disconnected) ==
    IF disconnected = <<>> THEN conns
    ELSE broadcast_cleanup(disconnect(conns, game_id, Head(disconnected)),
                           game_id, Tail(disconnected))

\* broadcast_to_game from the for statement on, up to the next send it
\* suspends in, or to its end: the task there and the registry it leaves
RECURSIVE broadcast_scan(_, _)
broadcast_scan(conns, task) ==
    LET n == dictiter_next(Walked(conns, task.game_id, task.it), task.it)
    IN  IF n.kind = "RuntimeError"
        THEN [task |-> [task EXCEPT !.pc = "RuntimeError"], connections |-> conns]
        ELSE IF n.kind = "StopIteration"
        THEN [task |-> [task EXCEPT !.pc = "returned"],
              connections |-> broadcast_cleanup(conns, task.game_id, task.disconnected)]
        ELSE IF task.token # NoToken /\ n.token = task.token
        THEN broadcast_scan(conns, [task EXCEPT !.it = n.it])
        ELSE [task |-> [task EXCEPT !.pc = "send_json", !.it = n.it,
                                    !.player_token = n.token,
                                    !.websocket = n.websocket],
              connections |-> conns]

\* broadcast_to_game up to its first send
broadcast_to_game(conns, task) ==
    IF task.game_id \notin DOMAIN conns
    THEN [task |-> [task EXCEPT !.pc = "returned"], connections |-> conns]
    ELSE broadcast_scan(conns, [task EXCEPT !.it = items(conns[task.game_id]),
                                            !.stayed = Registered(conns, task.game_id)])

\* broadcast_to_game when the send it was suspended in is over
broadcast_sent(conns, task, delivered) ==
    broadcast_scan(conns,
                   IF delivered
                   THEN [task EXCEPT !.sent = @ \cup {task.websocket}]
                   ELSE [task EXCEPT !.disconnected = Append(@, task.player_token)])

\* send_to_player up to its send
send_to_player(conns, task) ==
    IF task.game_id \in DOMAIN conns /\ Has(conns[task.game_id], task.token)
    THEN [task |-> [task EXCEPT !.pc = "send_json", !.player_token = task.token,
                                !.websocket = conns[task.game_id].entries[
                                                  Place(conns[task.game_id], task.token)
                                              ].websocket],
          connections |-> conns]
    ELSE [task |-> [task EXCEPT !.pc = "returned"], connections |-> conns]

\* send_to_player when its send is over
send_to_player_sent(conns, task, delivered) ==
    IF delivered
    THEN [task |-> [task EXCEPT !.pc = "returned", !.sent = {task.websocket}],
          connections |-> conns]
    ELSE [task |-> [task EXCEPT !.pc = "returned",
                                !.disconnected = <<task.player_token>>],
          connections |-> disconnect(conns, task.game_id, task.player_token)]

----------------------------------------------------------------------------
(* The requests *)

Target == IF created = 0 THEN 1 ELSE created

Stored == Target \in DOMAIN store

Game == store[Target]

Tokens == (1 .. issued) \cup {ForgedToken}

NotFound(op) ==
    /\ ~Stored
    /\ result' = HTTPException(op, 0, "NotFound", "no_such_game")
    /\ UNCHANGED <<store, created, issued, movesMade, departed>>

\* the outcome of a request made with player_token on the stored session; the
\* token of the request is kept with the response
Apply(o, player_token) ==
    /\ store' = IF o.deleted THEN [i \in DOMAIN store \ {Target} |-> store[i]]
                ELSE [store EXCEPT ![Target] = o.state]
    /\ result' = [o.result EXCEPT !.caller = player_token]
    /\ departed' = IF o.result.op = "leave" /\ o.result.status = "ok"
                   THEN departed \cup {player_token} ELSE departed

Init ==
    /\ store = <<>>
    /\ created = 0
    /\ issued = 0
    /\ movesMade = 0
    /\ departed = {}
    /\ result = NoResponse
    /\ connections = <<>>
    /\ sockets = <<>>
    /\ tasks = <<>>
    /\ pushed = NoPush

\* no websocket is opened: the registry stays empty, and a push task finds no
\* connection for its game and returns
Offline == UNCHANGED <<connections, sockets, tasks, pushed>>

CreateGame ==
    /\ created < MaxGames
    /\ DOMAIN store = {}
    /\ created' = created + 1
    /\ issued' = issued + 1
    /\ store' = [i \in {created + 1} |-> NewGame(created + 1, issued + 1)]
    /\ movesMade' = 0
    /\ departed' = {}
    /\ result' = [NoResponse EXCEPT !.op = "create", !.player = 1,
                                    !.token = issued + 1]

JoinGame ==
    \/ NotFound("join")
    \/ /\ Stored
       /\ \E existing_token \in Tokens \cup {NoToken}, start \in Players :
            LET o == join_game(Game, existing_token, issued + 1, start)
            IN  /\ Apply(o, existing_token)
                /\ issued' = IF o.result.flag THEN issued + 1 ELSE issued
       /\ UNCHANGED <<created, movesMade>>

\* the cells a client asks to place on: the first one valid-actions offers, the
\* refuge, the corner (taken from the first placement on), and a cell off the
\* board
PlaceInputs(g) ==
    {get_valid_placements(g)[i] : i \in {j \in {1} : Len(get_valid_placements(g)) > 0}}
        \cup {<<REFUGE_X, REFUGE_Y>>, <<0, 0>>, <<SIZE, 0>>}

PlacePiece ==
    \/ NotFound("place")
    \/ /\ Stored
       /\ \E player_token \in Tokens, c \in PlaceInputs(Game) :
            Apply(GameService_place_piece(Game, player_token, c[1], c[2]), player_token)
       /\ UNCHANGED <<created, issued, movesMade>>

\* the seats' tokens, and the tokens that open no seat of g
SeatTokens(g) == {g.player1, g.player2} \ {NoToken}

StrangerTokens(g) == Tokens \ SeatTokens(g)

Neighbours(c) ==
    {n \in Cells : Abs(n[1] - c[1]) + Abs(n[2] - c[2]) = 1}

\* the moves a client asks for: in the movement phase every step of a piece (of
\* either player) onto an empty cell; in any phase a step onto the next cell, a
\* diagonal and a two-cell step from the corner, a step off the board and a
\* step from off the board
MoveInputs(g) ==
    {m \in Cells \X Cells :
        /\ g.phase = "movement"
        /\ ~is_empty(g.board, m[1][1], m[1][2])
        /\ is_empty(g.board, m[2][1], m[2][2])
        /\ m[2] \in Neighbours(m[1])}
    \cup {<<<<0, 0>>, <<1, 0>>>>, <<<<0, 0>>, <<1, 1>>>>, <<<<0, 0>>, <<2, 0>>>>,
          <<<<0, 0>>, <<-1, 0>>>>, <<<<-1, 0>>, <<0, 0>>>>}

MoveRequests(g) ==
    (SeatTokens(g) \X MoveInputs(g)) \cup (StrangerTokens(g) \X {<<<<0, 0>>, <<1, 0>>>>})

\* the outcome of a move request; the moves carried out in one game are counted
\* up to MaxMoves, the refused requests are not
Moves(o, player_token) ==
    /\ o.result.status = "ok" => movesMade < MaxMoves
    /\ Apply(o, player_token)
    /\ movesMade' = IF o.result.status = "ok" THEN movesMade + 1 ELSE movesMade

MovePiece ==
    \/ NotFound("move")
    \/ /\ Stored
       /\ \E r \in MoveRequests(Game) :
            Moves(GameService_move_piece(Game, r[1], r[2][1][1], r[2][1][2],
                                         r[2][2][1], r[2][2][2]), r[1])
       /\ UNCHANGED <<created, issued>>

LeaveGame ==
    \/ NotFound("leave")
    \/ /\ Stored
       /\ \E player_token \in Tokens : Apply(leave_game(Game, player_token), player_token)
       /\ UNCHANGED <<created, issued, movesMade>>

RematchGame ==
    \/ NotFound("rematch")
    \/ /\ Stored
       /\ \E player_token \in Tokens, start \in Players :
            LET o == rematch_game(Game, player_token, start)
            IN  /\ Apply(o, player_token)
                /\ movesMade' = IF o.result.status = "ok" /\ o.result.flag THEN 0
                                ELSE movesMade
       /\ UNCHANGED <<created, issued>>

ReconnectGame ==
    \/ NotFound("reconnect")
    \/ /\ Stored
       /\ \E player_token \in Tokens : Apply(reconnect_game(Game, player_token), player_token)
       /\ UNCHANGED <<created, issued, movesMade>>

GetGameState ==
    \/ NotFound("state")
    \/ /\ Stored
       /\ \E player_token \in Tokens : Apply(get_game_state(Game, player_token), player_token)
       /\ UNCHANGED <<created, issued, movesMade>>

GetValidActions ==
    \/ NotFound("valid_actions")
    \/ /\ Stored
       /\ \E player_token \in Tokens : Apply(get_valid_actions(Game, player_token), player_token)
       /\ UNCHANGED <<created, issued, movesMade>>

Next ==
    \/ CreateGame /\ Offline
    \/ JoinGame /\ Offline
    \/ ReconnectGame /\ Offline
    \/ GetGameState /\ Offline
    \/ GetValidActions /\ Offline
    \/ PlacePiece /\ Offline
    \/ MovePiece /\ Offline
    \/ LeaveGame /\ Offline
    \/ RematchGame /\ Offline

Spec == Init /\ [][Next]_vars

----------------------------------------------------------------------------
(* A game played to the end.  The clients ask for the moves of one line of  *)
(* play in its order, skipping at most LineAhead - 1 of them at a time: a   *)
(* game that player 1 wins by leaving player 2 one piece, from the board    *)
(* that the placements in scan order give when player 1 has placed two      *)
(* pieces before player 2 joined and then starts.  movesMade is the place   *)
(* reached in the line.                                                     *)

LineOfPlay ==
    <<<<<<2, 3>>, <<2, 2>>>>,
      <<<<1, 3>>, <<2, 3>>>>,
      <<<<1, 4>>, <<1, 3>>>>,
      <<<<0, 4>>, <<1, 4>>>>,
      <<<<3, 2>>, <<3, 3>>>>,
      <<<<1, 2>>, <<1, 3>>>>,
      <<<<4, 2>>, <<3, 2>>>>,
      <<<<4, 3>>, <<4, 2>>>>,
      <<<<2, 2>>, <<1, 2>>>>,
      <<<<2, 1>>, <<2, 2>>>>,
      <<<<2, 2>>, <<3, 2>>>>,
      <<<<4, 1>>, <<3, 1>>>>,
      <<<<0, 2>>, <<1, 2>>>>,
      <<<<4, 0>>, <<4, 1>>>>,
      <<<<3, 0>>, <<4, 0>>>>,
      <<<<4, 0>>, <<3, 0>>>>>>

\* the places of the line a client may ask for next
LineMoves == {i \in 1 .. Len(LineOfPlay) : movesMade < i /\ i <= movesMade + LineAhead}

\* the outcome of the request for the move at place i of the line
Replays(i, o, player_token) ==
    /\ Apply(o, player_token)
    /\ movesMade' = IF o.result.status = "ok" THEN i ELSE movesMade

ReplayMove ==
    \/ NotFound("move")
    \/ /\ Stored
       /\ \E player_token \in SeatTokens(Game), i \in LineMoves :
            Replays(i, GameService_move_piece(Game, player_token,
                                              LineOfPlay[i][1][1], LineOfPlay[i][1][2],
                                              LineOfPlay[i][2][1], LineOfPlay[i][2][2]),
                    player_token)
       /\ UNCHANGED <<created, issued>>

NextEndgame ==
    \/ CreateGame /\ Offline
    \/ JoinGame /\ Offline
    \/ ReconnectGame /\ Offline
    \/ GetGameState /\ Offline
    \/ GetValidActions /\ Offline
    \/ PlacePiece /\ Offline
    \/ ReplayMove /\ Offline
    \/ LeaveGame /\ Offline
    \/ RematchGame /\ Offline

SpecEndgame == Init /\ [][NextEndgame]_vars

----------------------------------------------------------------------------
(* The opening.  Player 1 places on the first cell valid-actions offers;    *)
(* player 2 places on that cell or on the first free cell next to the       *)
(* refuge, so that the cells around the refuge can all go to player 2       *)
(* before the movement phase opens.                                         *)

OpeningMoves == 2

RefugeRing == <<<<2, 1>>, <<1, 2>>, <<3, 2>>, <<2, 3>>>>

OpeningInputs(g, player_token) ==
    LET offered == get_valid_placements(g)
        free(c) == is_empty(g.board, c[1], c[2])
        ring == SelectSeq(RefugeRing, free)
    IN  {offered[i] : i \in {j \in {1} : Len(offered) > 0}}
            \cup {ring[i] : i \in {j \in {1} : /\ Len(ring) > 0
                                               /\ get_player_number(g, player_token) = 2}}

PlaceOpening ==
    \/ NotFound("place")
    \/ /\ Stored
       /\ \E player_token \in SeatTokens(Game) :
            \E c \in OpeningInputs(Game, player_token) :
            Apply(GameService_place_piece(Game, player_token, c[1], c[2]), player_token)
       /\ UNCHANGED <<created, issued, movesMade>>

\* the first moves of the movement phase, up to OpeningMoves of them
MoveOpening ==
    \/ NotFound("move")
    \/ /\ Stored
       /\ movesMade < OpeningMoves
       /\ \E r \in MoveRequests(Game) :
            Moves(GameService_move_piece(Game, r[1], r[2][1][1], r[2][1][2],
                                         r[2][2][1], r[2][2][2]), r[1])
       /\ UNCHANGED <<created, issued>>

NextOpening ==
    \/ CreateGame /\ Offline
    \/ JoinGame /\ Offline
    \/ PlaceOpening /\ Offline
    \/ MoveOpening /\ Offline

SpecOpening == Init /\ [][NextOpening]_vars


----------------------------------------------------------------------------
(* The push side: api/routes_ws.py and the tasks of services/notifier.py.   *)
(* The clients create, join and leave the game, open websockets and drop    *)
(* them.  A websocket is the number of its place in sockets; open tells     *)
(* whether the client still holds it, and a send to it is delivered while   *)
(* it is open and fails once it is not.  The handler of a websocket is at   *)
(* pc: "accept" (in connect, awaiting the accept), "connected" (registered, *)
(* sending the greeting), "receive" (in the loop, awaiting a message),      *)
(* "ping" (the read timed out, sending the ping), or ended: "refused" (the  *)
(* accept raised), "disconnected" (an except clause of the handler ran),    *)
(* "ping_failed" and "receive_failed" (the loop was left by a break).       *)

MaxSockets == 2
MaxTasks == 2

\* the game ids and tokens the clients open websockets with: the two seats of
\* the game, a token no seat was ever opened with, and a game id no session is
\* stored under
PushKeys == {<<1, 1>>, <<1, 2>>, <<1, ForgedToken>>, <<MaxGames + 1, 1>>}

\* routes_ws.game_repo: the repository the websocket handler reads, constructed
\* in routes_ws and never saved to
ws_game_repo == <<>>

\* the tasks a request creates: one for each notifier call, in their order, and
\* the delayed game_started of a join that has taken the seat
Scheduled(response, game_id) ==
    [k \in DOMAIN response.events |->
        NewTask(IF response.events[k].to = "game" THEN "broadcast" ELSE "send",
                response.events[k].type, game_id, response.events[k].token)]
    \o (IF response.op = "join" /\ response.flag
        THEN <<NewTask("delayed", "game_started", game_id, NoToken)>>
        ELSE <<>>)

\* a request on the push side: its tasks join the event loop's.  The clients
\* make the requests that are carried out, and player 1 starts.
NotifiesUpTo(n) ==
    /\ result'.status = "ok"
    /\ result'.op = "join" => result'.flag /\ store'[Target].current_player = PLAYER1
    /\ Len(tasks) + Len(Scheduled(result', Target)) <= n
    /\ tasks' = tasks \o Scheduled(result', Target)
    /\ UNCHANGED <<connections, sockets, pushed>>

Notifies == NotifiesUpTo(MaxTasks)

\* history: each scan suspended in a send keeps of stayed the websockets the
\* registry still holds
Watch(ts, conns) ==
    [k \in DOMAIN ts |->
        IF ts[k].kind = "broadcast" /\ ts[k].pc = "send_json"
        THEN [ts[k] EXCEPT !.stayed = @ \cap Registered(conns, ts[k].game_id)]
        ELSE ts[k]]

Without(ts, k) == [j \in 1 .. Len(ts) - 1 |-> IF j < k THEN ts[j] ELSE ts[j + 1]]

\* task k has run up to r: it is suspended in a send, or has ended
Settles(k, r) ==
    /\ connections' = r.connections
    /\ IF r.task.pc \in {"returned", "RuntimeError"}
       THEN /\ tasks' = Watch(Without(tasks, k), r.connections)
            /\ pushed' = Ended(r.task, r.task.pc)
       ELSE /\ tasks' = Watch([tasks EXCEPT ![k] = r.task], r.connections)
            /\ pushed' = pushed
    /\ UNCHANGED <<store, created, issued, movesMade, departed, result, sockets>>

\* the event loop starts the tasks in the order they were created
Runs(k) ==
    /\ tasks[k].pc = "created"
    /\ \A j \in 1 .. k - 1 : tasks[j].pc # "created"
    /\ \E r \in {IF tasks[k].kind = "broadcast"
                 THEN broadcast_to_game(connections, tasks[k])
                 ELSE IF tasks[k].kind = "send"
                 THEN send_to_player(connections, tasks[k])
                 ELSE [task |-> [tasks[k] EXCEPT !.pc = "sleep"],
                       connections |-> connections]} :
         Settles(k, r)

\* the send a task is suspended in is over
Sent(k) ==
    /\ tasks[k].pc = "send_json"
    /\ \E r \in {IF tasks[k].kind = "broadcast"
                 THEN broadcast_sent(connections, tasks[k],
                                     sockets[tasks[k].websocket].open)
                 ELSE send_to_player_sent(connections, tasks[k],
                                          sockets[tasks[k].websocket].open)} :
         Settles(k, r)

\* the delayed task announcing on the status the session had when it was created
notify_game_started_delayed_stale(games, game_id) ==
    <<NewTask("broadcast", "game_started", game_id, NoToken)>>

\* _notify_game_started_delayed after its sleep: the tasks it creates, on the
\* session it reads from the repository
notify_game_started_delayed(games, game_id) ==
    IF game_id \in DOMAIN games /\ games[game_id].status = "playing"
    THEN <<NewTask("broadcast", "game_started", game_id, NoToken)>>
    ELSE <<>>

Wakes(k) ==
    /\ tasks[k].pc = "sleep"
    /\ tasks' = Without(tasks, k) \o notify_game_started_delayed(store, tasks[k].game_id)
    /\ pushed' = Ended(tasks[k], "returned")
    /\ UNCHANGED <<store, created, issued, movesMade, departed, result,
                   connections, sockets>>

\* a client opens a websocket: websocket_endpoint begins and connect awaits the
\* accept
ConnectUpTo(n) ==
    /\ Len(sockets) < n
    /\ \E key \in PushKeys :
         sockets' = Append(sockets, [game_id |-> key[1], token |-> key[2],
                                     open |-> TRUE, pc |-> "accept"])
    /\ UNCHANGED <<store, created, issued, movesMade, departed, result,
                   connections, tasks, pushed>>

Connect == ConnectUpTo(MaxSockets)

\* a client's websocket is gone without a word
Drop(s) ==
    /\ sockets[s].open
    /\ sockets' = [sockets EXCEPT ![s].open = FALSE]
    /\ UNCHANGED <<store, created, issued, movesMade, departed, result,
                   connections, tasks, pushed>>

\* connect once the accept is over: the websocket is registered and the handler
\* sends the greeting; a failed accept ends the handler
Accepted(s) ==
    /\ sockets[s].pc = "accept"
    /\ \E conns \in {IF sockets[s].open
                      THEN connect(connections, sockets[s].game_id, sockets[s].token, s)
                      ELSE connections} :
         /\ connections' = conns
         /\ tasks' = Watch(tasks, conns)
    /\ sockets' = [sockets EXCEPT ![s].pc = IF sockets[s].open THEN "connected"
                                            ELSE "refused"]
    /\ UNCHANGED <<store, created, issued, movesMade, departed, result, pushed>>

\* the except clauses treating the lost connection as a leave of the game
websocket_endpoint_except_leaves(conns, games, game_id, token) ==
    [connections |-> disconnect(conns, game_id, token),
     store |-> IF game_id \in DOMAIN games
               THEN [games EXCEPT ![game_id] = leave_game(@, token).state]
               ELSE games]

\* the except clauses of websocket_endpoint: the registry and the sessions they
\* leave
websocket_endpoint_except(conns, games, game_id, token) ==
    [connections |-> disconnect(conns, game_id, token), store |-> games]

\* the handler once the greeting is over: it looks the game up in its
\* repository and enters the loop; a failed greeting takes it to the except
\* clauses.  The scan of game_started that the handler awaits is kept as a task.
Greeted(s) ==
    /\ sockets[s].pc = "connected"
    /\ IF sockets[s].open
       THEN /\ tasks' = IF /\ sockets[s].game_id \in DOMAIN ws_game_repo
                           /\ ws_game_repo[sockets[s].game_id].status = "playing"
                           /\ get_connected_players(connections, sockets[s].game_id) >= 2
                        THEN Append(tasks, NewTask("broadcast", "game_started",
                                                   sockets[s].game_id, NoToken))
                        ELSE tasks
            /\ sockets' = [sockets EXCEPT ![s].pc = "receive"]
            /\ UNCHANGED <<store, connections>>
       ELSE /\ \E r \in {websocket_endpoint_except(connections, store,
                                                     sockets[s].game_id,
                                                     sockets[s].token)} :
                 /\ connections' = r.connections
                 /\ store' = r.store
                 /\ tasks' = Watch(tasks, r.connections)
            /\ sockets' = [sockets EXCEPT ![s].pc = "disconnected"]
    /\ UNCHANGED <<created, issued, movesMade, departed, result, pushed>>

\* the read has timed out: the handler sends a ping
TimedOut(s) ==
    /\ sockets[s].pc = "receive"
    /\ sockets' = [sockets EXCEPT ![s].pc = "ping"]
    /\ UNCHANGED <<store, created, issued, movesMade, departed, result,
                   connections, tasks, pushed>>

\* the ping is over: the handler reads again, or leaves the loop when the ping
\* failed
Pinged(s) ==
    /\ sockets[s].pc = "ping"
    /\ sockets' = [sockets EXCEPT ![s].pc = IF sockets[s].open THEN "receive"
                                            ELSE "ping_failed"]
    /\ UNCHANGED <<store, created, issued, movesMade, departed, result,
                   connections, tasks, pushed>>

\* the read raises on a websocket that is gone: the loop's except Exception
\* leaves the loop
ReceiveFailed(s) ==
    /\ sockets[s].pc = "receive"
    /\ ~sockets[s].open
    /\ sockets' = [sockets EXCEPT ![s].pc = "receive_failed"]
    /\ UNCHANGED <<store, created, issued, movesMade, departed, result,
                   connections, tasks, pushed>>

NextPush ==
    \/ CreateGame /\ Notifies
    \/ JoinGame /\ Notifies
    \/ LeaveGame /\ Notifies
    \/ Connect
    \/ \E s \in DOMAIN sockets : Drop(s)
    \/ \E k \in DOMAIN tasks : Runs(k)
    \/ \E k \in DOMAIN tasks : Sent(k)
    \/ \E k \in DOMAIN tasks : Wakes(k)
    \/ \E s \in DOMAIN sockets : Accepted(s)
    \/ \E s \in DOMAIN sockets : Greeted(s)
    \/ \E s \in DOMAIN sockets : TimedOut(s)
    \/ \E s \in DOMAIN sockets : Pinged(s)
    \/ \E s \in DOMAIN sockets : ReceiveFailed(s)

SpecPush == Init /\ [][NextPush]_vars

\* what the server does by itself: the steps of the tasks and of the handlers
ServerStep ==
    \/ \E k \in DOMAIN tasks : Runs(k) \/ Sent(k) \/ Wakes(k)
    \/ \E s \in DOMAIN sockets :
         Accepted(s) \/ Greeted(s) \/ TimedOut(s) \/ Pinged(s) \/ ReceiveFailed(s)

\* The event loop goes on while a task or a handler can take a step; the
\* clients owe nothing.
SpecPushFair == SpecPush /\ WF_vars(ServerStep)

----------------------------------------------------------------------------
(* The delayed announcement.  The push side with one websocket and room for *)
(* the tasks of a join and of a leave together, so that a player can leave  *)
(* while the delayed task of the join sleeps.                               *)

DelayedSockets == 1
DelayedTasks == 3

NextDelayed ==
    \/ CreateGame /\ NotifiesUpTo(DelayedTasks)
    \/ JoinGame /\ NotifiesUpTo(DelayedTasks)
    \/ LeaveGame /\ NotifiesUpTo(DelayedTasks)
    \/ ConnectUpTo(DelayedSockets)
    \/ \E s \in DOMAIN sockets : Drop(s)
    \/ \E k \in DOMAIN tasks : Runs(k)
    \/ \E k \in DOMAIN tasks : Sent(k)
    \/ \E k \in DOMAIN tasks : Wakes(k)
    \/ \E s \in DOMAIN sockets : Accepted(s)
    \/ \E s \in DOMAIN sockets : Greeted(s)
    \/ \E s \in DOMAIN sockets : TimedOut(s)
    \/ \E s \in DOMAIN sockets : Pinged(s)
    \/ \E s \in DOMAIN sockets : ReceiveFailed(s)

SpecDelayed == Init /\ [][NextDelayed]_vars


----------------------------------------------------------------------------
(* Properties *)

\* the last request was a move the service carried out
Moved == Stored /\ result.op = "move" /\ result.status = "ok"

Refuge == <<REFUGE_X, REFUGE_Y>>

Axes == {<<1, 0>>, <<-1, 0>>, <<0, 1>>, <<0, -1>>}

\* the custody rule, read off a board: the cells next to c that hold a piece of
\* the other player, are not the refuge, and have a piece of player right behind
Custody(board, c, player) ==
    {e \in Cells :
        \E d \in Axes :
            /\ e = <<c[1] + d[1], c[2] + d[2]>>
            /\ <<c[1] + 2 * d[1], c[2] + 2 * d[2]>> \in Cells
            /\ board[e] = 3 - player
            /\ e # Refuge
            /\ board[<<c[1] + 2 * d[1], c[2] + 2 * d[2]>>] = player}

\* the piece of player on c has an empty neighbour where it would capture
ChainAvailable(board, c, player) ==
    \E n \in Neighbours(c) :
        /\ board[n] = EMPTY
        /\ Custody([board EXCEPT ![c] = EMPTY, ![n] = player], n, player) # {}

\* the moves of player that every rule but the chain rule allows
OtherwiseLegal(g, player) ==
    {m \in Cells \X Cells :
        /\ g.phase = "movement"
        /\ g.current_player = player
        /\ g.board[m[1]] = player
        /\ g.board[m[2]] = EMPTY
        /\ m[2] \in Neighbours(m[1])}

SeatToken(g, player) == IF player = 1 THEN g.player1 ELSE g.player2

(* C1: a move that captures and leaves the moved piece an empty neighbour where
   it would capture again pins that piece (chain pointer = its cell), keeps the
   turn with the mover and answers extraTurn; and while a piece is pinned, a
   move of the player to move from any other origin, otherwise legal, is
   refused with the reason that names the pinned cell, the session unchanged. *)
C1_ChainCapture ==
    /\ (Moved /\ result.captures # <<>>
            /\ ChainAvailable(Game.board, result.target, result.player))
         => /\ Game.chain_capture_piece = result.target
            /\ Game.current_player = result.player
            /\ result.extraTurn
    /\ (Stored /\ Game.chain_capture_piece # NoPiece)
         => \A m \in OtherwiseLegal(Game, Game.current_player) :
              m[1] # Game.chain_capture_piece =>
                LET o == GameService_move_piece(Game,
                             SeatToken(Game, Game.current_player),
                             m[1][1], m[1][2], m[2][1], m[2][2])
                IN  \/ SeatToken(Game, Game.current_player) = NoToken
                    \/ /\ o.result.status = "IllegalAction"
                       /\ o.result.reason = "must_continue_chain"
                       /\ o.result.pinned = Game.chain_capture_piece
                       /\ o.state = Game
                       /\ ~o.deleted

\* a move from another origin has just been refused during a chain
C1_Witness ==
    /\ Stored
    /\ result.op = "move"
    /\ result.status = "IllegalAction"
    /\ result.reason = "must_continue_chain"
    /\ result.pinned = Game.chain_capture_piece
    /\ Game.current_player = result.player
    /\ ChainAvailable(Game.board, Game.chain_capture_piece, result.player)

(* C2: a successful move of player P to cell t captures exactly the cells the
   custody rule gives on the board after the relocation: the response lists
   them, the board loses exactly them, and the opponent's piece count drops by
   their number. *)
C2_CustodyCapture ==
    [][(result'.op = "move" /\ result'.status = "ok") =>
        LET g == store[Target]
            h == store'[Target]
            P == result'.player
            relocated == [g.board EXCEPT ![result'.origin] = EMPTY,
                                         ![result'.target] = P]
            expected == Custody(relocated, result'.target, P)
        IN  /\ {result'.captures[i] : i \in 1 .. Len(result'.captures)} = expected
            /\ Len(result'.captures) = Cardinality(expected)
            /\ h.board = [c \in Cells |-> IF c \in expected THEN EMPTY
                                          ELSE relocated[c]]
            /\ h.pieces_count[3 - P] = g.pieces_count[3 - P] - Cardinality(expected)
            /\ h.pieces_count[P] = g.pieces_count[P]]_vars

\* a move has just captured two pieces at once
C2_Witness ==
    /\ Moved
    /\ Len(result.captures) = 2
    /\ \A i \in 1 .. 2 : Game.board[result.captures[i]] = EMPTY

(* C3: no move removes the piece that stands on the refuge: after a successful
   move it is still there, or it is the piece that moved and stands on the
   destination. *)
C3_RefugeImmune ==
    [][(result'.op = "move" /\ result'.status = "ok"
            /\ store[Target].board[Refuge] # EMPTY) =>
        \/ store'[Target].board[Refuge] = store[Target].board[Refuge]
        \/ /\ result'.origin = Refuge
           /\ store'[Target].board[result'.target] = store[Target].board[Refuge]]_vars

\* a piece has just landed next to an enemy piece on the refuge, with a piece of
\* the mover right behind the refuge
C3_Witness ==
    /\ Moved
    /\ Game.board[Refuge] = 3 - result.player
    /\ \E d \in Axes :
         /\ Refuge = <<result.target[1] + d[1], result.target[2] + d[2]>>
         /\ Game.board[<<result.target[1] + 2 * d[1], result.target[2] + 2 * d[2]>>]
              = result.player

(* C4: in the placement phase the refuge is empty, and a place request on the
   refuge by the holder of either seat is refused as an illegal action and
   leaves the session as it was, whoever's turn it is. *)
C4_RefugeUnplaceable ==
    (Stored /\ Game.phase = "placement") =>
        /\ Game.board[Refuge] = EMPTY
        /\ \A t \in SeatTokens(Game) :
             LET o == GameService_place_piece(Game, t, REFUGE_X, REFUGE_Y)
             IN  /\ o.result.status = "IllegalAction"
                 /\ o.state = Game
                 /\ ~o.deleted

\* the player to move has just been refused the refuge
C4_Witness ==
    /\ Stored
    /\ Game.phase = "placement"
    /\ result.op = "place"
    /\ result.status = "IllegalAction"
    /\ result.reason = "refuge"
    /\ result.player = Game.current_player

\* every place request is refused and changes nothing
PlaceAlwaysFails(g) ==
    \A t \in Tokens, c \in Cells :
        LET o == GameService_place_piece(g, t, c[1], c[2])
        IN  o.result.status # "ok" /\ o.state = g /\ ~o.deleted

(* C5, as claimed: once the placed counter is 24, the phase is MOVEMENT in the
   states that follow, whatever request comes next. *)
C5_MovementForEver ==
    [][(Stored /\ Game.total_pieces_placed = 24 /\ Target \in DOMAIN store') =>
        store'[Target].phase = "movement"]_vars

(* C5, amended: while the placed counter is 24 the phase is MOVEMENT and every
   place request fails; the counter leaves 24 only by the rematch call that
   completes the handshake, which puts the phase back to PLACEMENT and the
   counter to 0. *)
C5_MovementUntilRematch ==
    /\ [](Stored /\ Game.total_pieces_placed = 24
            => Game.phase = "movement" /\ PlaceAlwaysFails(Game))
    /\ [][(Stored /\ Game.total_pieces_placed = 24 /\ Target \in DOMAIN store') =>
            \/ /\ store'[Target].total_pieces_placed = 24
               /\ store'[Target].phase = "movement"
            \/ /\ result'.op = "rematch"
               /\ result'.status = "ok"
               /\ result'.flag
               /\ store'[Target].total_pieces_placed = 0
               /\ store'[Target].phase = "placement"]_vars

\* a place request has just been refused on a session with 24 pieces placed
C5_Witness ==
    /\ Stored
    /\ Game.total_pieces_placed = 24
    /\ result.op = "place"
    /\ result.status = "IllegalAction"
    /\ result.reason = "not_placement_phase"

(* C6: a move after which a player holds fewer than 2 pieces ends the game in
   the same call: game_over, status FINISHED, the other player the winner, and
   the response says gameOver with that winner. *)
C6_Attrition ==
    Moved =>
        \A p \in Players :
            Game.pieces_count[p] < 2 =>
                /\ Game.game_over
                /\ Game.status = "finished"
                /\ Game.winner = 3 - p
                /\ result.gameOver
                /\ result.winner = 3 - p

\* a capture has just left a player with one piece, which can still move
C6_Witness ==
    /\ Moved
    /\ result.captures # <<>>
    /\ Game.pieces_count[3 - result.player] = 1
    /\ Game.pieces_count[result.player] >= 2
    /\ Game.current_player = 3 - result.player
    /\ Cardinality(DOMAIN get_all_valid_moves(Game, Game.current_player)) > 0

\* the victory check of the last move found the player to move without a move,
\* both players holding 2 pieces or more
Blocked ==
    /\ Moved
    /\ Game.phase = "movement"
    /\ Game.pieces_count[1] >= 2
    /\ Game.pieces_count[2] >= 2
    /\ Cardinality(DOMAIN get_all_valid_moves(Game, Game.current_player)) = 0

(* C7: when the victory check finds the player to move blocked, the game is
   over and the winner is not the blocked player. *)
C7_BlockedPlayerLoses ==
    Blocked => Game.game_over /\ Game.winner # Game.current_player

(* C8: when the player to move is blocked, the game is over with a winner: the
   player with strictly more pieces, or with equal counts the opponent of the
   blocked player; never a game over without a winner. *)
C8_StalemateWinner ==
    Blocked =>
        /\ Game.game_over
        /\ result.gameOver
        /\ Game.winner \in Players
        /\ result.winner = Game.winner
        /\ Game.pieces_count[1] > Game.pieces_count[2] => Game.winner = 1
        /\ Game.pieces_count[2] > Game.pieces_count[1] => Game.winner = 2
        /\ Game.pieces_count[1] = Game.pieces_count[2]
             => Game.winner = 3 - Game.current_player

\* a move has just blocked the opponent, the counts being equal
C8_Witness ==
    /\ Blocked
    /\ Game.pieces_count[1] = Game.pieces_count[2]
    /\ Game.winner = result.player

(* C9: while the status is PLAYING the player to move is 1 or 2 and that seat
   is taken. *)
C9_TurnHolderSeated ==
    (Stored /\ Game.status = "playing") =>
        /\ Game.current_player \in Players
        /\ SeatToken(Game, Game.current_player) # NoToken

\* the session as a completed rematch leaves it
FreshlyReset(h) ==
    /\ h.board = EmptyBoard
    /\ h.phase = "placement"
    /\ h.pieces_count = <<0, 0>>
    /\ h.total_pieces_placed = 0
    /\ h.placement_remaining = 2
    /\ h.winner = NoWinner
    /\ ~h.game_over
    /\ h.chain_capture_piece = NoPiece
    /\ h.status = "playing"
    /\ h.current_player \in Players
    /\ h.rematch_requests = {}

(* C10: a rematch request on a session that is not over is refused as
   NotYetFinished and changes nothing; a session that is over is reset by, and
   only by, the rematch call of a seated player whose ordinal completes the
   request set to {1, 2}, and that call leaves the session freshly reset; any
   other rematch call leaves the game over, the board, counts and phase as
   they were. *)
C10_RematchHandshake ==
    [][(Stored /\ Target \in DOMAIN store') =>
        LET g == store[Target]
            h == store'[Target]
            completes == /\ result'.op = "rematch"
                         /\ result'.player \in Players
                         /\ result'.status = "ok"
                         /\ g.rematch_requests \cup {result'.player} = Players
        IN  /\ (result'.op = "rematch" /\ ~g.game_over)
                 => result'.status = "NotYetFinished" /\ h = g
            /\ (g.game_over /\ completes) => FreshlyReset(h) /\ result'.flag
            /\ (g.game_over /\ ~h.game_over) => completes
            /\ (result'.op = "rematch" /\ g.game_over /\ ~completes)
                 => /\ ~result'.flag
                    /\ h.game_over
                    /\ h.board = g.board
                    /\ h.phase = g.phase
                    /\ h.status = g.status
                    /\ h.pieces_count = g.pieces_count
                    /\ h.winner = g.winner]_vars

\* the second player's rematch call has just restarted the game
C10_Witness ==
    /\ Stored
    /\ result.op = "rematch"
    /\ result.status = "ok"
    /\ result.flag
    /\ FreshlyReset(Game)
    /\ Game.player1 # NoToken
    /\ Game.player2 # NoToken

(* C11: a leave by a seated player empties that seat and no other; when the
   other seat is empty too the session is removed from the store, and from
   then on every request on that game is answered NotFound and changes
   nothing; otherwise the session stays stored, finished and over, the
   remaining player its winner, with the board, the phase, the counts, the
   placement budget, the chain pointer and the turn as they were. *)
C11_Leave ==
    [][/\ (Stored /\ result'.op = "leave" /\ result'.status = "ok") =>
            LET g == store[Target]
                n == result'.player
            IN  /\ n \in Players
                /\ SeatToken(g, n) # NoToken
                /\ IF SeatToken(g, 3 - n) = NoToken
                   THEN Target \notin DOMAIN store' /\ result'.flag
                   ELSE /\ Target \in DOMAIN store'
                        /\ ~result'.flag
                        /\ store'[Target] =
                               [g EXCEPT !.player1 = IF n = 1 THEN NoToken ELSE @,
                                         !.player2 = IF n = 2 THEN NoToken ELSE @,
                                         !.status = "finished",
                                         !.game_over = TRUE,
                                         !.winner = 3 - n]
       /\ (~Stored /\ created > 0 /\ created' = created) =>
            /\ result'.status = "NotFound"
            /\ store' = store]_vars

\* a player holding more pieces has left a game in the movement phase, and the
\* player who stays is its winner
C11_Witness ==
    /\ Stored
    /\ result.op = "leave"
    /\ result.status = "ok"
    /\ Game.phase = "movement"
    /\ Game.status = "finished"
    /\ SeatToken(Game, result.player) = NoToken
    /\ SeatToken(Game, 3 - result.player) # NoToken
    /\ Game.winner = 3 - result.player
    /\ Game.pieces_count[result.player] > Game.pieces_count[3 - result.player]

(* C12, as stated: once a player has left a game, every later request on the
   stored game made with that player's token is answered Unauthorized, and the
   token opens no seat again. *)
C12_LeaverUnauthorized ==
    [][/\ (Stored /\ result'.caller \in departed) => result'.status = "Unauthorized"
       /\ Target \in DOMAIN store'
            => departed' \cap SeatTokens(store'[Target]) = {}]_vars

(* C12, amended: once a player has left a game, every later request on the
   stored game made with that player's token is refused and changes nothing:
   a join as AlreadyFull, a rematch on a game that is not over as
   NotYetFinished, and a reconnect, get-state, place, move, valid-actions,
   leave, or rematch on a game that is over, as Unauthorized; and the token
   opens no seat again. *)
C12_LeaverRefused ==
    [][/\ (Stored /\ result'.caller \in departed) =>
            /\ result'.status =
                   IF result'.op = "join" THEN "AlreadyFull"
                   ELSE IF result'.op = "rematch" /\ ~Game.game_over THEN "NotYetFinished"
                   ELSE "Unauthorized"
            /\ result'.op \in {"join", "reconnect", "state", "place", "move",
                                "valid_actions", "leave", "rematch"}
            /\ store' = store
       /\ Target \in DOMAIN store'
            => departed' \cap SeatTokens(store'[Target]) = {}]_vars

\* the player who left has asked to join again with the old token and has been
\* refused as AlreadyFull
C12_Witness ==
    /\ Stored
    /\ result.caller \in departed
    /\ result.op = "join"
    /\ result.status = "AlreadyFull"
    /\ result.caller \notin SeatTokens(Game)

(* C13: a join made with the token of seat 1 or seat 2 of the game is answered
   with that token and that seat's ordinal, whatever the status of the
   session, and changes nothing: the session is as it was (seats, status and
   turn included) and no token is generated. *)
C13_JoinIdempotent ==
    [][(/\ Stored
        /\ result'.op = "join"
        /\ result'.caller # NoToken
        /\ result'.caller \in SeatTokens(Game)) =>
            /\ result'.status = "ok"
            /\ result'.token = result'.caller
            /\ result'.player \in Players
            /\ SeatToken(Game, result'.player) = result'.caller
            /\ ~result'.flag
            /\ result'.events = <<>>
            /\ store' = store
            /\ issued' = issued]_vars

\* player 1 has joined again with the own token while waiting for an opponent
C13_Witness ==
    /\ Stored
    /\ result.op = "join"
    /\ result.status = "ok"
    /\ result.caller = Game.player1
    /\ result.token = Game.player1
    /\ result.player = 1
    /\ Game.status = "waiting"
    /\ Game.player2 = NoToken

(* C14: a join on a session that is not waiting changes nothing and generates
   no token: made with a token of no seat it is refused as AlreadyFull; made
   with no token it is answered with the token of seat 2 and the ordinal 2
   when seat 2 is taken, and refused as AlreadyFull when it is not.  A token
   is generated for seat 2 only by a join on a waiting session, which then is
   PLAYING with player 1 or player 2 to move. *)
C14_JoinOnlyWhileWaiting ==
    [][/\ (Stored /\ result'.op = "join" /\ Game.status # "waiting") =>
            /\ store' = store
            /\ issued' = issued
            /\ (result'.caller # NoToken /\ result'.caller \notin SeatTokens(Game))
                 => result'.status = "AlreadyFull"
            /\ (result'.caller = NoToken /\ Game.player2 # NoToken)
                 => /\ result'.status = "ok"
                    /\ result'.token = Game.player2
                    /\ result'.player = 2
            /\ (result'.caller = NoToken /\ Game.player2 = NoToken)
                 => result'.status = "AlreadyFull"
       /\ (Stored /\ Target \in DOMAIN store'
              /\ (issued' # issued \/ store'[Target].player2 \notin {NoToken, Game.player2})) =>
            /\ result'.op = "join"
            /\ result'.status = "ok"
            /\ Game.status = "waiting"
            /\ issued' = issued + 1
            /\ result'.token = issued'
            /\ result'.player = 2
            /\ store'[Target] = [Game EXCEPT !.player2 = issued',
                                              !.status = "playing",
                                              !.current_player = store'[Target].current_player]
            /\ store'[Target].current_player \in Players]_vars

\* a join without a token on a finished session whose seat 2 is empty has been
\* refused as AlreadyFull
C14_Witness ==
    /\ Stored
    /\ result.op = "join"
    /\ result.caller = NoToken
    /\ result.status = "AlreadyFull"
    /\ Game.status = "finished"
    /\ Game.player2 = NoToken
    /\ Game.player1 # NoToken

(* C15: a request made with no token, or with a token of no seat, is never
   answered with a token that already opens a seat of the game. *)
C15_SeatOwnership ==
    [][(Stored /\ result'.status = "ok" /\ result'.caller \notin SeatTokens(Game))
         => result'.token \notin SeatTokens(Game)]_vars

\* what a reason of refusal says of the session the request was made on
ReasonHolds(g, op, player, reason, pinned) ==
    CASE op = "place" /\ reason = "not_placement_phase" -> g.phase # "placement"
      [] op = "place" /\ reason = "not_your_turn" -> g.current_player # player
      [] op = "place" /\ reason = "no_placements_left" -> g.placement_remaining <= 0
      [] op = "place" /\ reason \in {"out_of_board", "cell_occupied", "refuge"} ->
            g.phase = "placement" /\ g.current_player = player
      [] op = "move" /\ reason = "not_movement_phase" -> g.phase # "movement"
      [] op = "move" /\ reason = "not_your_turn" -> g.current_player # player
      [] op = "move" /\ reason \in {"bad_origin", "bad_destination", "not_your_piece",
                                     "destination_occupied", "not_orthogonal_step"} ->
            g.phase = "movement" /\ g.current_player = player
      [] op = "move" /\ reason = "must_continue_chain" ->
            g.chain_capture_piece # NoPiece /\ pinned = g.chain_capture_piece
      [] OTHER -> FALSE

(* C16: a place or move request of a seated player that the legality check
   refuses (wrong phase, not the caller's turn, no budget, a cell off the
   board, a taken cell or the refuge, an origin that is not the caller's
   piece, a step that is not one cell along one axis, an origin other than
   the pinned piece) leaves the whole session as it was and calls the
   notifier for no event; and a place outside the placement phase or out of
   turn, like a move outside the movement phase or out of turn, is always
   refused. *)
C16_RefusedChangesNothing ==
    [][/\ (/\ Stored
           /\ result'.op \in {"place", "move"}
           /\ result'.status = "IllegalAction") =>
            /\ store' = store
            /\ result'.events = <<>>
            /\ result'.player \in Players
            /\ SeatToken(Game, result'.player) = result'.caller
            /\ ReasonHolds(Game, result'.op, result'.player, result'.reason,
                           result'.pinned)
       /\ (/\ Stored
           /\ result'.op \in {"place", "move"}
           /\ result'.caller \in SeatTokens(Game)
           /\ \/ Game.current_player # get_player_number(Game, result'.caller)
              \/ Game.phase # (IF result'.op = "place" THEN "placement" ELSE "movement"))
            => result'.status = "IllegalAction"]_vars

\* the player to move, with one placement left in the turn, has asked for a
\* taken cell and has been refused
C16_Witness ==
    /\ Stored
    /\ result.op = "place"
    /\ result.status = "IllegalAction"
    /\ result.reason = "cell_occupied"
    /\ result.events = <<>>
    /\ Game.current_player = result.player
    /\ Game.placement_remaining = 1
    /\ Game.status = "playing"

(* C17: a get-state, place, move, valid-actions, reconnect, leave or rematch
   request on a stored game, made with a token that opens neither seat, is
   refused, leaves the store as it was (the rematch requests of the session
   included) and calls the notifier for no event. *)
C17_StrangerChangesNothing ==
    [][(/\ Stored
        /\ result'.op \in {"state", "place", "move", "valid_actions", "reconnect",
                            "leave", "rematch"}
        /\ result'.caller \notin SeatTokens(Game)) =>
            /\ store' = store
            /\ result'.events = <<>>
            /\ result'.status \in {"Unauthorized", "NotYetFinished"}
            /\ result'.status = "NotYetFinished"
                 => result'.op = "rematch" /\ ~Game.game_over]_vars

\* a rematch asked with a token of no seat, on a game that is over and for
\* which the opponent has asked already, has been refused
C17_Witness ==
    /\ Stored
    /\ result.op = "rematch"
    /\ result.status = "Unauthorized"
    /\ result.caller \notin SeatTokens(Game)
    /\ Game.game_over
    /\ Game.rematch_requests # {}
    /\ Game.rematch_requests # Players
    /\ Game.player1 # NoToken
    /\ Game.player2 # NoToken

\* the chain pointer of g is null, or names a cell with a piece of the player to
\* move outside the placement phase
ChainPointerSound(g) ==
    \/ g.chain_capture_piece = NoPiece
    \/ /\ g.phase # "placement"
       /\ g.chain_capture_piece \in Cells
       /\ g.board[g.chain_capture_piece] = g.current_player

(* C18: in every state a request leaves, the chain pointer of the session, when
   set, names a cell that holds a piece of the player to move, and it is null
   in the placement phase; and a move that hands the turn to the opponent
   leaves the chain pointer null. *)
C18_ChainPointer ==
    [][/\ \A i \in DOMAIN store' : ChainPointerSound(store'[i])
       /\ (/\ Stored
           /\ result'.op = "move"
           /\ result'.status = "ok"
           /\ store'[Target].current_player # Game.current_player)
            => store'[Target].chain_capture_piece = NoPiece]_vars

\* a capture has pinned the moved piece: the pointer names its cell and the
\* mover keeps the turn
C18_Witness ==
    /\ Moved
    /\ result.captures # <<>>
    /\ Game.chain_capture_piece = result.target
    /\ Game.board[result.target] = Game.current_player
    /\ Game.current_player = result.player
    /\ Game.phase = "movement"

(* C19: in every state the placed counter of a session is between 0 and 24 and
   the piece count of each player is 0 or more, whatever place, move, leave
   and rematch requests led there, moves on a game that is over included. *)
C19_Counters ==
    \A i \in DOMAIN store :
        /\ store[i].total_pieces_placed \in 0 .. 24
        /\ store[i].pieces_count[1] >= 0
        /\ store[i].pieces_count[2] >= 0

\* a move made on a game that a leave had ended before has captured a piece
C19_Witness ==
    /\ Moved
    /\ Game.game_over
    /\ ~result.gameOver
    /\ Game.total_pieces_placed = 24
    /\ result.captures # <<>>
    /\ Game.pieces_count[3 - result.player] < 12

(* C20: a placement the service carries out puts the caller's piece on the
   asked cell, which was empty, adds 1 to the caller's piece count and to the
   placed counter, and takes 1 off the turn's budget; when that leaves 0 the
   turn passes to the opponent with a budget of 2, otherwise the caller keeps
   the turn; and in every state of the placement phase the budget is 1 or
   2. *)
C20_Placement ==
    [][/\ (Stored /\ result'.op = "place" /\ result'.status = "ok") =>
            LET g == Game
                h == store'[Target]
                p == result'.player
                c == result'.target
            IN  /\ p \in Players
                /\ SeatToken(g, p) = result'.caller
                /\ c \in Cells
                /\ g.board[c] = EMPTY
                /\ h.board = [g.board EXCEPT ![c] = p]
                /\ h.pieces_count = [g.pieces_count EXCEPT ![p] = @ + 1]
                /\ h.total_pieces_placed = g.total_pieces_placed + 1
                /\ IF g.placement_remaining - 1 = 0
                   THEN h.current_player = 3 - p /\ h.placement_remaining = 2
                   ELSE /\ h.current_player = p
                        /\ h.placement_remaining = g.placement_remaining - 1
       /\ \A i \in DOMAIN store' :
            store'[i].phase = "placement" => store'[i].placement_remaining \in {1, 2}]_vars

\* the second placement of a turn has passed the turn to the opponent, who has
\* two placements to make
C20_Witness ==
    /\ Stored
    /\ result.op = "place"
    /\ result.status = "ok"
    /\ Game.phase = "placement"
    /\ Game.status = "playing"
    /\ Game.board[result.target] = result.player
    /\ Game.current_player = 3 - result.player
    /\ Game.placement_remaining = 2
    /\ Game.total_pieces_placed > 2

\* the origins and, for an origin, the destinations the acceptance of a move is
\* looked at for: every cell and two cells off the board; the cell itself and
\* the cells one or two steps away along an axis or one step along both
ProbeOrigins == Cells \cup {<<-1, 0>>, <<0, SIZE>>}

ProbeSteps == {d \in (-2 .. 2) \X (-2 .. 2) : Abs(d[1]) + Abs(d[2]) <= 2}

\* the conditions under which a move of player from cell a to cell b is legal
MoveLegal(g, player, a, b) ==
    /\ g.phase = "movement"
    /\ g.current_player = player
    /\ a \in Cells
    /\ b \in Cells
    /\ g.board[a] = player
    /\ g.board[b] = EMPTY
    /\ Abs(b[1] - a[1]) + Abs(b[2] - a[2]) = 1
    /\ g.chain_capture_piece \in {NoPiece, a}

\* the board of h is the board of g with the piece of player taken from a to b
\* and the cells of captures emptied
Relocated(g, h, player, a, b, captures) ==
    h.board = [c \in Cells |->
                  IF c = b THEN player
                  ELSE IF c = a \/ (\E i \in 1 .. Len(captures) : captures[i] = c)
                  THEN EMPTY
                  ELSE g.board[c]]

\* the last request is one that writes the session: every session the service
\* reaches is first seen in such a state
Written ==
    /\ result.op \in {"create", "join", "place", "move", "leave", "rematch"}
    /\ result.status \in {"ok", "ServerError"}

(* C21: on every session the service reaches, can_move_piece accepts a move of
   player P exactly when the phase is MOVEMENT, P is to move, origin and
   destination are on the board, the origin holds a piece of P, the
   destination is empty, the step is one cell along one axis and the chain
   pointer is null or the origin; and an accepted move, carried out by the
   service, takes that piece to the destination and changes no other cell
   but the captured ones. *)
C21_MoveAccepted ==
    Written =>
    \A i \in DOMAIN store, player \in Players, a \in ProbeOrigins, d \in ProbeSteps :
        LET g == store[i]
            b == <<a[1] + d[1], a[2] + d[2]>>
            o == GameService_move_piece(g, SeatToken(g, player), a[1], a[2], b[1], b[2])
        IN  /\ can_move_piece(g, a[1], a[2], b[1], b[2], player).ok
                 <=> MoveLegal(g, player, a, b)
            /\ MoveLegal(g, player, a, b) =>
                 /\ move_piece(g, a[1], a[2], b[1], b[2]).board
                       = [g.board EXCEPT ![a] = EMPTY, ![b] = player]
                 /\ SeatToken(g, player) # NoToken =>
                       /\ o.result.status = "ok"
                       /\ Relocated(g, o.state, player, a, b, o.result.captures)
                       /\ \A k \in 1 .. Len(o.result.captures) :
                             g.board[o.result.captures[k]] = 3 - player

\* a move has captured one piece and passed the turn: the cell left and the
\* captured cell are empty
C21_Witness ==
    /\ Moved
    /\ Game.phase = "movement"
    /\ Game.board[result.origin] = EMPTY
    /\ Game.board[result.target] = result.player
    /\ Len(result.captures) = 1
    /\ Game.board[result.captures[1]] = EMPTY
    /\ Game.pieces_count[3 - result.player] = 11
    /\ Game.current_player = 3 - result.player

\* the empty cells next to c
FreeAround(board, c) == {n \in Neighbours(c) : board[n] = EMPTY}

(* C27: has_capture_chain, called on a cell that holds a piece of the player it
   is called for, leaves the session it was called on as it was, board and
   every other field, whether the piece has no empty neighbour, an empty
   neighbour from which it would capture, or empty neighbours from none of
   which it would. *)
C27_ChainCheckRestores ==
    Written =>
    \A i \in DOMAIN store, c \in Cells :
        store[i].board[c] # EMPTY
            => has_capture_chain(store[i], c[1], c[2], store[i].board[c]).state = store[i]

\* the board holds a piece with no empty neighbour, a piece with two empty
\* neighbours or more that would capture from one of them, and a piece with
\* empty neighbours that would capture from none
C27_Witness ==
    /\ Stored
    /\ Written
    /\ Game.phase = "movement"
    /\ \E c \in Cells :
        /\ Game.board[c] # EMPTY
        /\ FreeAround(Game.board, c) = {}
        /\ ~has_capture_chain(Game, c[1], c[2], Game.board[c]).found
    /\ \E c \in Cells :
        /\ Game.board[c] # EMPTY
        /\ Cardinality(FreeAround(Game.board, c)) >= 2
        /\ has_capture_chain(Game, c[1], c[2], Game.board[c]).found
    /\ \E c \in Cells :
        /\ Game.board[c] # EMPTY
        /\ FreeAround(Game.board, c) # {}
        /\ ~has_capture_chain(Game, c[1], c[2], Game.board[c]).found

(* C28: a session is created WAITING and its status is always WAITING, PLAYING
   or FINISHED, never READY.  While the session stays stored its status
   changes only from WAITING to PLAYING, by a join; from PLAYING to FINISHED,
   by a move whose victory check found a winner or by a leave; and from
   FINISHED to PLAYING, by the rematch request that completes the handshake.
   No session returns to WAITING. *)
C28_StatusEdges ==
    [][/\ \A i \in DOMAIN store' :
            /\ store'[i].status \in {"waiting", "playing", "finished"}
            /\ i \notin DOMAIN store
                 => store'[i].status = "waiting" /\ result'.op = "create"
       /\ \A i \in DOMAIN store \cap DOMAIN store' :
            LET from == store[i].status
                to == store'[i].status
            IN  from # to =>
                    /\ result'.status = "ok"
                    /\ \/ /\ from = "waiting"
                          /\ to = "playing"
                          /\ result'.op = "join"
                       \/ /\ from = "playing"
                          /\ to = "finished"
                          /\ \/ result'.op = "move" /\ result'.gameOver
                             \/ result'.op = "leave"
                       \/ /\ from = "finished"
                          /\ to = "playing"
                          /\ result'.op = "rematch"
                          /\ result'.flag
                          /\ store[i].rematch_requests \cup {result'.player} = Players]_vars

\* a game that a move ended has been started again by the second of the two
\* rematch requests: the session has gone from WAITING to PLAYING to FINISHED
\* and back to PLAYING
C28_Witness ==
    /\ Stored
    /\ result.op = "rematch"
    /\ result.flag
    /\ Game.status = "playing"
    /\ FreshlyReset(Game)
    /\ SeatToken(Game, 1) # NoToken
    /\ SeatToken(Game, 2) # NoToken
    /\ departed = {}

\* the events the last request enqueued, in the order it enqueued them
Enqueued == result.events

(* C29: a successful move enqueues its events once the session it produced is
   the stored one, and in this order: first the opponent-moved broadcast, which
   excludes the mover; then, when the move ended the game, one game-over
   broadcast that excludes nobody and no your-turn; when it did not end the
   game and granted an extra turn, nothing more; otherwise exactly one
   your-turn, sent to the token of the opponent's seat and to no one else. *)
C29_MoveEvents ==
    Moved =>
        /\ Game.board[result.target] = result.player
        /\ Game.game_over \/ ~result.gameOver
        /\ result.caller = SeatToken(Game, result.player)
        /\ Len(Enqueued) >= 1
        /\ Enqueued[1] = Broadcast("opponent_moved", result.caller)
        /\ \A k \in 2 .. Len(Enqueued) : Enqueued[k].type \in {"game_over", "your_turn"}
        /\ result.gameOver
             => Enqueued = <<Broadcast("opponent_moved", result.caller),
                             Broadcast("game_over", NoToken)>>
        /\ (~result.gameOver /\ result.extraTurn)
             => Enqueued = <<Broadcast("opponent_moved", result.caller)>>
        /\ (~result.gameOver /\ ~result.extraTurn)
             => /\ Enqueued = <<Broadcast("opponent_moved", result.caller),
                                Send("your_turn", SeatToken(Game, 3 - result.player))>>
                /\ SeatToken(Game, 3 - result.player) # result.caller

\* a capturing move that grants an extra turn has enqueued the opponent-moved
\* broadcast alone, with both seats taken
C29_Witness ==
    /\ Moved
    /\ result.extraTurn
    /\ ~result.gameOver
    /\ result.captures # <<>>
    /\ SeatToken(Game, 3 - result.player) # NoToken
    /\ Len(Enqueued) = 1

\* the websockets the registry holds under a game and a token
Under(conns, game_id, player_token) ==
    IF game_id \in DOMAIN conns
    THEN {conns[game_id].entries[k].websocket :
            k \in {j \in Held(conns[game_id]) :
                     conns[game_id].entries[j].token = player_token}}
    ELSE {}

\* two registries hold the same websockets everywhere but under (game, token)
SameButFor(c, d, game_id, player_token) ==
    \A key \in PushKeys :
        key # <<game_id, player_token>> => Under(c, key[1], key[2]) = Under(d, key[1], key[2])

(* C22: the registry holds at most one connection under a game and a token and
   never a game with an empty map.  A connect leaves exactly the new
   connection under its game and token, whether one was registered there or
   not, and every other entry as it was; a disconnect leaves none under its
   game and token and every other entry as it was, and the game is in the
   registry afterwards exactly when another of its entries is left. *)
C22_Registry ==
    /\ \A g \in DOMAIN connections : Held(connections[g]) # {}
    /\ \A key \in PushKeys : Cardinality(Under(connections, key[1], key[2])) <= 1
    /\ \A key \in PushKeys, websocket \in 1 .. MaxSockets :
        LET c == connect(connections, key[1], key[2], websocket)
        IN  /\ Under(c, key[1], key[2]) = {websocket}
            /\ SameButFor(connections, c, key[1], key[2])
    /\ \A key \in PushKeys :
        LET d == disconnect(connections, key[1], key[2])
        IN  /\ Under(d, key[1], key[2]) = {}
            /\ SameButFor(connections, d, key[1], key[2])
            /\ \A g \in DOMAIN d : Held(d[g]) # {}
            /\ key[1] \in DOMAIN d <=> Registered(d, key[1]) # {}
            /\ DOMAIN d \ {key[1]} = DOMAIN connections \ {key[1]}

\* a second websocket has taken the first one's place under their game and
\* token, its greeting has failed, and the except clause has removed the entry
\* and, with it, the game's map
C22_Witness ==
    /\ Len(sockets) = 2
    /\ sockets[1].game_id = sockets[2].game_id
    /\ sockets[1].token = sockets[2].token
    /\ sockets[1].pc = "receive"
    /\ sockets[2].pc = "disconnected"
    /\ sockets[1].game_id \notin DOMAIN connections

\* a scan of broadcast_to_game has ended in this step
ScanEnds == Len(tasks') < Len(tasks) /\ pushed'.kind = "broadcast"

\* the tokens whose sends the scan saw fail
Failed(p) == {p.disconnected[k] : k \in DOMAIN p.disconnected}

\* every websocket that was registered for the game all through the scan, but
\* the one under the excluded token, was given the message or seen to fail
Reached(p) ==
    \A w \in p.stayed :
        sockets[w].token # p.token => w \in p.sent \/ sockets[w].token \in Failed(p)

(* C23: when a scan of broadcast_to_game ends, every connection registered for
   the game, but the one under the excluded token, has been given the message
   or has been seen to fail; the message went to no connection of another game
   and not to the excluded token; no entry is left under a token whose send
   failed; and the connections the message was delivered to are registered
   still. *)
C23_Broadcast ==
    [][ScanEnds =>
        /\ Reached(pushed')
        /\ \A w \in pushed'.sent :
            /\ sockets[w].game_id = pushed'.game_id
            /\ sockets[w].token # pushed'.token
        /\ \A t \in Failed(pushed') : Under(connections', pushed'.game_id, t) = {}
        /\ \A w \in pushed'.sent \cap pushed'.stayed :
            w \in Registered(connections', pushed'.game_id)]_vars

(* C24: a scan of broadcast_to_game never ends by an exception, and it gives
   the message to every connection, but the excluded one, that stayed
   registered for the game from the scan's beginning to its end, whatever
   connects and disconnects ran while the scan was suspended in a send. *)
C24_Interleaving ==
    pushed.kind = "broadcast" => pushed.outcome = "returned" /\ Reached(pushed)

\* websocket s is the one the registry holds under its game and token
Listed(s) ==
    /\ s \in DOMAIN sockets
    /\ sockets[s].game_id \in DOMAIN connections
    /\ Has(connections[sockets[s].game_id], sockets[s].token)
    /\ connections[sockets[s].game_id].entries[
           Place(connections[sockets[s].game_id], sockets[s].token)].websocket = s

(* C25: once the ping that follows a read's timeout has failed, the registry
   eventually no longer holds that connection under its game and token. *)
C25_FailedPingRemoves ==
    \A s \in 1 .. MaxSockets :
        (s \in DOMAIN sockets /\ sockets[s].pc = "ping_failed") ~> ~Listed(s)

\* the handler of every websocket has ended
AllEnded ==
    \A s \in DOMAIN sockets :
        sockets[s].pc \in {"refused", "disconnected", "ping_failed", "receive_failed"}

\* after a failed ping the registry holds the connection while no task is left
\* and every handler has ended: the server has no step to take
C25_Stranded ==
    \E s \in DOMAIN sockets :
        /\ sockets[s].pc = "ping_failed"
        /\ Listed(s)
        /\ tasks = <<>>
        /\ AllEnded
        /\ ~ENABLED ServerStep

\* a step of the push side: of a websocket, of its handler or of a push task
PushStep ==
    \/ sockets' # sockets
    \/ connections' # connections
    \/ pushed' # pushed
    \/ tasks' # tasks /\ Len(tasks') <= Len(tasks)

(* C26: no step of the push side (a websocket opened or dropped, a step of its
   handler, a push delivered or failed) changes the store: every session keeps
   its status, winner, game_over flag, seats, board and turn, and every token
   resolves to the seat it resolved to, for reconnect as for the other
   requests. *)
C26_DropLeavesSessions ==
    [][PushStep =>
        /\ store' = store
        /\ UNCHANGED <<created, issued, departed>>
        /\ \A i \in DOMAIN store, t \in Tokens :
            /\ get_player_number(store'[i], t) = get_player_number(store[i], t)
            /\ reconnect_game(store'[i], t).result = reconnect_game(store[i], t).result]_vars

\* the websocket of a seated player was dropped and the except clause of its
\* handler has run, a push to a websocket of the game has failed, and the game
\* is being played with that player's token bound to its seat
C26_Witness ==
    /\ Stored
    /\ Game.status = "playing"
    /\ pushed.disconnected # <<>>
    /\ pushed.game_id = Target
    /\ \E s \in DOMAIN sockets :
        /\ sockets[s].pc = "disconnected"
        /\ ~sockets[s].open
        /\ sockets[s].game_id = Target
        /\ get_player_number(Game, sockets[s].token) # 0
        /\ reconnect_game(Game, sockets[s].token).result.status = "ok"

\* a scan of game_started for the game that excludes nobody
Announces(task, game_id) ==
    /\ task.kind = "broadcast"
    /\ task.type = "game_started"
    /\ task.game_id = game_id
    /\ task.token = NoToken

(* C30: when the handler of a websocket has sent its greeting while the
   session of its game is stored with status PLAYING and two connections or
   more are registered for the game, the handler makes a scan of game_started
   for all the connections of that game. *)
C30_HandlerAnnounces ==
    [][\A s \in DOMAIN sockets :
        (/\ sockets[s].pc = "connected"
         /\ sockets'[s].pc = "receive"
         /\ sockets[s].game_id \in DOMAIN store
         /\ store[sockets[s].game_id].status = "playing"
         /\ get_connected_players(connections, sockets[s].game_id) >= 2)
            => /\ Len(tasks') = Len(tasks) + 1
               /\ Announces(tasks'[Len(tasks')], sockets[s].game_id)]_vars

\* the moves of player that can_move_piece accepts on g
Accepted_moves(g, player) ==
    {m \in Cells \X Cells :
        /\ m[2] \in Neighbours(m[1])
        /\ can_move_piece(g, m[1][1], m[1][2], m[2][1], m[2][2], player).ok}

\* the session is being played in the movement phase and is not over
InPlay == Stored /\ Game.status = "playing" /\ Game.phase = "movement" /\ ~Game.game_over

(* C31: in every state with status PLAYING, phase MOVEMENT and game_over
   false, the player to move has at least one move that can_move_piece
   accepts; so too in the state right after the 24th placement. *)
C31_NoDeadlock ==
    InPlay => Accepted_moves(Game, Game.current_player) # {}

\* the 24th placement has just opened the movement phase and the player to
\* move has no move
C31_StuckAfterPlacement ==
    /\ InPlay
    /\ result.op = "place"
    /\ result.status = "ok"
    /\ result.phaseChanged
    /\ Accepted_moves(Game, Game.current_player) = {}

(* C32: a place or move request on a session whose status is not PLAYING
   (WAITING or FINISHED) is refused, and the stored session (board, counts,
   turn) stays as it was. *)
C32_OnlyWhilePlaying ==
    [][(/\ Stored
        /\ Game.status # "playing"
        /\ result'.op \in {"place", "move"})
          => /\ result'.status # "ok"
             /\ store' = store]_vars

\* a placement has been carried out on a session that waits for its opponent
C32_PlacedWhileWaiting ==
    /\ Stored
    /\ Game.status = "waiting"
    /\ result.op = "place"
    /\ result.status = "ok"
    /\ Game.board # EmptyBoard

\* a move has been carried out on a finished session: the move itself has
\* not ended the game
C32_MovedWhenFinished ==
    /\ Moved
    /\ Game.status = "finished"
    /\ ~result.gameOver

\* the board is full but for the refuge
FullBoard(board) == \A c \in Cells : (board[c] = EMPTY) <=> (c = Refuge)

(* C33: whenever a session passes from the placement phase to the movement
   phase, each player has exactly 12 pieces on the board and the board is full
   except for the refuge cell. *)
C33_TwelveEach ==
    [][(/\ Stored
        /\ Target \in DOMAIN store'
        /\ Game.phase = "placement"
        /\ store'[Target].phase = "movement")
          => /\ store'[Target].pieces_count = <<12, 12>>
             /\ \A p \in Players :
                    Cardinality({c \in Cells : store'[Target].board[c] = p}) = 12
             /\ FullBoard(store'[Target].board)]_vars

\* the 24th placement has opened the movement phase with unequal counts
C33_UnequalOpening ==
    /\ Stored
    /\ result.op = "place"
    /\ result.status = "ok"
    /\ result.phaseChanged
    /\ Game.phase = "movement"
    /\ Game.pieces_count # <<12, 12>>
    /\ FullBoard(Game.board)

\* the step completes a rematch
RematchCompleted == result'.op = "rematch" /\ result'.status = "ok" /\ result'.flag

(* C34: once a session is over with winner w, the winner is w in every later
   state of the session until a completed rematch resets it, whatever place,
   move, leave or join requests follow. *)
C34_WinnerStable ==
    [][(/\ Stored
        /\ Game.game_over
        /\ Game.winner \in Players
        /\ Target \in DOMAIN store'
        /\ ~RematchCompleted)
          => store'[Target].winner = Game.winner]_vars

\* the winner of a game won on the board has left, and the session names the
\* loser the winner: the player who is blocked with equal counts, or who has
\* less than 2 pieces
C34_WinnerReplaced ==
    /\ Stored
    /\ result.op = "leave"
    /\ result.status = "ok"
    /\ Game.phase = "movement"
    /\ Game.game_over
    /\ Game.winner \in Players
    /\ SeatToken(Game, Game.winner) # NoToken
    /\ SeatToken(Game, 3 - Game.winner) = NoToken
    /\ \/ Game.pieces_count[Game.winner] < 2
       \/ /\ Game.winner = Game.current_player
          /\ Game.pieces_count[1] = Game.pieces_count[2]
          /\ Game.chain_capture_piece = NoPiece
          /\ DOMAIN get_all_valid_moves(Game, Game.current_player) = {}

(* C35: a rematch request on a session that is over, made with the token of
   a taken seat, completes with a started flag; and when the seat of the
   opponent is empty it adds nobody to the rematch requests of the session. *)
C35_RematchCompletes ==
    [][(/\ Stored
        /\ Game.game_over
        /\ result'.op = "rematch"
        /\ get_player_number(Game, result'.caller) # 0)
          => /\ result'.status = "ok"
             /\ result'.flag \in BOOLEAN
             /\ Target \in DOMAIN store'
             /\ SeatToken(Game, 3 - get_player_number(Game, result'.caller)) = NoToken
                  => store'[Target].rematch_requests \subseteq Game.rematch_requests]_vars

\* a rematch request has failed on the empty seat of the opponent and has left
\* the caller among the rematch requests
C35_FailedAndRecorded ==
    /\ Stored
    /\ result.op = "rematch"
    /\ result.status = "ServerError"
    /\ Game.game_over
    /\ get_player_number(Game, result.caller) = result.player
    /\ result.player \in Game.rematch_requests
    /\ SeatToken(Game, 3 - result.player) = NoToken

\* the reasons check_victory gives when it finds the player to move blocked
BlockedReasons == {"p2_blocked_p1_more", "p1_blocked_p2_more", "blocked_tie"}

(* C38: in every state where the chain pointer of a session is set, the pinned
   piece has an empty orthogonal neighbour on the board, so
   get_all_valid_moves for the player to move is not empty; and the victory
   check of a move that pins a piece never finds the pinned player blocked. *)
C38_NoDeadChain ==
    /\ \A i \in DOMAIN store :
        store[i].chain_capture_piece # NoPiece =>
            /\ store[i].chain_capture_piece \in Cells
            /\ store[i].board[store[i].chain_capture_piece] # EMPTY
            /\ \E n \in Neighbours(store[i].chain_capture_piece) :
                    store[i].board[n] = EMPTY
            /\ DOMAIN get_all_valid_moves(store[i], store[i].current_player) # {}
    /\ (Moved /\ result.extraTurn) => result.reason \notin BlockedReasons

\* a capture has pinned the moved piece, the game goes on and the pinned piece
\* can step to an empty cell
C38_Witness ==
    /\ Moved
    /\ result.extraTurn
    /\ ~Game.game_over
    /\ Game.chain_capture_piece = result.target
    /\ get_valid_moves_for_piece(Game, result.target[1], result.target[2]) # <<>>

\* the number of cells of board that hold a piece of player p
OnBoard(board, p) == Cardinality({c \in Cells : board[c] = p})

(* C39: in every state, for each player p, pieces_count[p] of a session is
   the number of cells of its board that hold a piece of p, and in the
   placement phase total_pieces_placed is pieces_count[1] + pieces_count[2]. *)
C39_CountsMatchBoard ==
    \A i \in DOMAIN store :
        /\ \A p \in Players : store[i].pieces_count[p] = OnBoard(store[i].board, p)
        /\ store[i].phase = "placement"
             => store[i].total_pieces_placed
                  = store[i].pieces_count[1] + store[i].pieces_count[2]

\* a move has captured: the counts of the two players differ from what was
\* placed, and match the board
C39_Witness ==
    /\ Moved
    /\ result.captures # <<>>
    /\ Game.pieces_count[1] + Game.pieces_count[2] = 24 - Len(result.captures)
    /\ OnBoard(Game.board, 3 - result.player) = Game.pieces_count[3 - result.player]

\* websocket w has taken the place of an older websocket under their game and
\* token: the older one has been through connect
Replaces(w) ==
    \E s \in DOMAIN sockets :
        /\ s < w
        /\ sockets[s].game_id = sockets[w].game_id
        /\ sockets[s].token = sockets[w].token
        /\ sockets[s].pc \notin {"accept", "refused"}

(* C36: when a connection has taken the place of an older one under their game
   and token, no later step (the except clause of the older connection's
   handler, the cleanup of a scan or the failure path of a targeted send that
   failed on the older connection) removes the new connection, still open,
   from the registry. *)
C36_ReplacementStays ==
    [][\A w \in DOMAIN sockets :
        (Listed(w) /\ Replaces(w) /\ sockets[w].open) => Listed(w)']_vars

\* the new connection is open and its handler is in its loop, the handler of
\* the older one has ended in its except clause, and the registry holds nothing
\* under their game and token
C36_NewRemoved ==
    /\ Len(sockets) = 2
    /\ sockets[1].game_id = sockets[2].game_id
    /\ sockets[1].token = sockets[2].token
    /\ sockets[1].pc = "disconnected"
    /\ sockets[2].open
    /\ sockets[2].pc = "receive"
    /\ Under(connections, sockets[2].game_id, sockets[2].token) = {}

\* the push events of a game
GameEvents ==
    {"opponent_placed", "opponent_moved", "game_over", "phase_changed",
     "rematch_started", "game_started"}

\* in this step the send task k was suspended in is over and websocket w has
\* been given the message
Delivers(k, w) ==
    /\ tasks[k].pc = "send_json"
    /\ tasks[k].websocket = w
    /\ sockets[w].open
    /\ w \notin tasks[k].sent
    /\ \/ /\ Len(tasks') = Len(tasks)
          /\ tasks'[k].type = tasks[k].type
          /\ w \in tasks'[k].sent
       \/ /\ Len(tasks') = Len(tasks) - 1
          /\ pushed'.kind = tasks[k].kind
          /\ pushed'.type = tasks[k].type
          /\ pushed'.sent = tasks[k].sent \cup {w}

\* player_token is the token of a taken seat of the game stored under game_id
SeatBound(game_id, player_token) ==
    /\ game_id \in DOMAIN store
    /\ get_player_number(store[game_id], player_token) # 0

(* C37: a push event of a game is delivered only to a connection registered
   under a token that is bound to a seat of that game; a connection opened
   with any other token is given none of them. *)
C37_OnlySeats ==
    [][\A k \in DOMAIN tasks, w \in DOMAIN sockets :
        (Delivers(k, w) /\ tasks[k].type \in GameEvents)
            => SeatBound(tasks[k].game_id, sockets[w].token)]_vars

\* a scan of game_started has ended and has given the message to a connection
\* opened with a token that no seat was ever opened with
C37_StrangerServed ==
    /\ pushed.kind = "broadcast"
    /\ pushed.type = "game_started"
    /\ pushed.game_id = Target
    /\ \E w \in pushed.sent :
        /\ sockets[w].token = ForgedToken
        /\ sockets[w].game_id = Target

\* the store as a request with the outcome o leaves it
Persisted(o) ==
    IF o.deleted THEN [i \in DOMAIN store \ {Target} |-> store[i]]
    ELSE [store EXCEPT ![Target] = o.state]

\* the delayed task k ends its sleep in this step
WakesUp(k) ==
    /\ tasks[k].kind = "delayed"
    /\ tasks[k].pc = "sleep"
    /\ pushed'.kind = "delayed"
    /\ pushed'.game_id = tasks[k].game_id
    /\ pushed' # pushed

(* C40: a request runs whole in one step.  Every step that changes the store
   is one request: no task and no handler of a websocket moves in it, the tasks
   it creates have not begun, and for a leave the store holds the whole
   outcome of leave_game (the seat emptied, the status, the winner, or the
   session deleted) on the session as it was stored before the step.  And the
   delayed task of a join, when its sleep ends, creates the scan of
   game_started exactly when the session is stored with status PLAYING at that
   moment, whatever it was when the task was created. *)
C40_Atomic ==
    [][/\ store' # store =>
            /\ UNCHANGED <<connections, sockets, pushed>>
            /\ Len(tasks') >= Len(tasks)
            /\ \A k \in DOMAIN tasks' :
                IF k <= Len(tasks) THEN tasks'[k] = tasks[k]
                ELSE tasks'[k].pc = "created"
            /\ result'.op \in {"create", "join", "leave"}
            /\ result'.op = "leave" =>
                 store' = Persisted(leave_game(Game, result'.caller))
       /\ \A k \in DOMAIN tasks :
            WakesUp(k) =>
                /\ store' = store
                /\ IF /\ tasks[k].game_id \in DOMAIN store
                      /\ store[tasks[k].game_id].status = "playing"
                   THEN /\ Len(tasks') = Len(tasks)
                        /\ Announces(tasks'[Len(tasks')], tasks[k].game_id)
                        /\ tasks'[Len(tasks')].pc = "created"
                   ELSE tasks' = Without(tasks, k)]_vars

\* a player has left while the delayed task of the join slept, and the task
\* has ended without a scan of game_started
C40_Witness ==
    /\ Stored
    /\ Game.status = "finished"
    /\ departed # {}
    /\ pushed.kind = "delayed"
    /\ pushed.game_id = Target
    /\ \A k \in DOMAIN tasks : tasks[k].type # "game_started"

============================================================================
